---------------------------- MODULE Spec2Model ----------------------------
(***************************************************************************)
(* A model of nvim::ui_controller (src/src/ui.cpp): the redraw-event       *)
(* handlers, the highlight table, the grid/cell model and the double       *)
(* buffer that hands finished grids to the rendering side.                 *)
(*                                                                         *)
(* Indices are 0-based as in the source; TLA+ sequences are 1-based, so    *)
(* element i of a vector v is v[i + 1].                                    *)
(***************************************************************************)
EXTENDS Integers, Sequences, FiniteSets, TLC

VARIABLES
    grids,            \* the two grid instances, indexed 0 and 1
    writing,          \* ui_controller::writing   (index of a grid)
    complete,         \* ui_controller::complete  (index of a grid, atomic)
    hltable,          \* ui_controller::hltable
    mode_info_table,  \* ui_controller::mode_info_table
    current_mode,     \* ui_controller::current_mode
    opts,             \* ui_controller::opts
    option_guifont,   \* ui_controller::option_guifont
    option_title,     \* ui_controller::option_title
    flush_wait,       \* ui_controller::flush_wait (TRUE: a semaphore is set)
    proc,             \* "running", "aborted" (std::abort), "corrupt" (heap)
    cb,               \* how often each window callback / semaphore has fired
    nevents,          \* number of handler invocations so far (bounded)
    rd,               \* the rendering-side reader of the complete grid
    call              \* the last handler invocation, with its arguments

vars == <<grids, writing, complete, hltable, mode_info_table, current_mode,
          opts, option_guifont, option_title, flush_wait, proc, cb, nevents,
          rd, call>>

---------------------------------------------------------------------------
(* Bounds of the model.                                                    *)

\* Handler invocations explored in one behaviour.
MaxEvents == 4
\* Largest highlight id an event names.
MaxHlId == 3
\* Largest grid width / height an event names.
MaxWidth == 3
MaxHeight == 2
\* Longest list of cell updates in one grid_line tuple.
MaxUpdates == 3
\* The events of a batch.
MaxBatch == 3
\* The characters of a font-list string.
MaxFontLen == 4
\* Model width of size_t: arithmetic on size_t wraps modulo 2^SizeBits.
\* (TLC's integers are 32 bit; every other quantity of the model is far
\* below 2^SizeBits, so the wrap-around cases are the same as for 64 bits.)
SizeBits == 16

SIZE_MOD == 2 ^ SizeBits
SIZE_MAX == SIZE_MOD - 1

\* An integer converted to size_t.
ToSize(n) == n % SIZE_MOD

---------------------------------------------------------------------------
(* Decoded msgpack values (msg::object): a tag and a payload.              *)

MInt(n)  == [t |-> "int",  i |-> n, s |-> ""]
MStr(s)  == [t |-> "str",  i |-> 0, s |-> s]
MBool(b) == [t |-> "bool", i |-> IF b THEN 1 ELSE 0, s |-> ""]
MNil     == [t |-> "nil",  i |-> 0, s |-> ""]

IsInt(o)  == o.t = "int"
IsStr(o)  == o.t = "str"
IsBool(o) == o.t = "bool"

\* A key/value pair of a msg::map.
Pair(k, v) == [first |-> k, second |-> v]

---------------------------------------------------------------------------
(* Colors, cell attributes, cells, grids.                                  *)

\* rgb_color(rgb) and rgb_color(rgb, default_tag).
Rgb(n)        == [rgb |-> n, def |-> FALSE]
RgbDefault(n) == [rgb |-> n, def |-> TRUE]
\* rgb_color()
NoColor == Rgb(0)

is_default(color) == color.def

\* cell_attributes(): no flags, default constructed colors.
DefaultAttrs ==
    [foreground |-> NoColor, background |-> NoColor, special |-> NoColor,
     flags |-> {}]

\* cell(): the empty glyph.
EmptyCell == [text |-> "", attrs |-> DefaultAttrs]

\* cursor_attributes()
DefaultCursorAttrs ==
    [shape |-> "block", percentage |-> 0, blinkwait |-> 0, blinkon |-> 0,
     blinkoff |-> 0, blinks |-> FALSE,
     foreground |-> NoColor, background |-> NoColor, special |-> NoColor]

\* grid(): no cells, cursor at the origin, draw_tick 0.
EmptyGrid ==
    [grid_width |-> 0, grid_height |-> 0, cells |-> <<>>,
     cursor_row |-> 0, cursor_col |-> 0,
     cursor_attrs |-> DefaultCursorAttrs, draw_tick |-> 0]

\* std::vector<T>::resize(n, fill)
VecResize(v, n, fill) ==
    [i \in 1..n |-> IF i <= Len(v) THEN v[i] ELSE fill]

---------------------------------------------------------------------------
(* The highlight table.                                                    *)

\* table[index] of a std::vector: reading past the end is undefined.
OutOfRange == [error |-> "out of range"]
VecAt(table, index) ==
    IF index < Len(table) THEN table[index + 1] ELSE OutOfRange

hl_get_entry_off_by_one(table, hlid) ==
    IF hlid <= Len(table) THEN VecAt(table, hlid) ELSE VecAt(table, 0)

\* hl_get_entry: the entry for hlid, the default entry if hlid is undefined.
hl_get_entry(table, hlid) ==
    IF hlid < Len(table) THEN VecAt(table, hlid) ELSE VecAt(table, 0)

\* hl_new_entry: the table with a fresh entry, and the index of the entry
\* the returned pointer refers to.
hl_new_entry(table, hlid) ==
    LET table_size == Len(table) IN
    IF hlid = table_size
        THEN [table |-> Append(table, table[1]), index |-> table_size]
    ELSE IF hlid < table_size
        THEN [table |-> [table EXCEPT ![hlid + 1] = table[1]], index |-> hlid]
    ELSE \* table.resize(hlid, default_attrs); return &table.back()
         [table |-> VecResize(table, hlid, table[1]), index |-> hlid - 1]

\* set_rgb_color: a non-integer value leaves the color as it is.
set_rgb_color(color, object) ==
    IF ~IsInt(object) THEN color ELSE Rgb(object.i)

FlagNames == {"underline", "bold", "italic", "strikethrough", "undercurl",
              "reverse"}

\* One iteration of the loop of hl_attr_define over the definition map.
HlApplyPair(attrs, pair) ==
    IF ~IsStr(pair.first) THEN attrs
    ELSE LET name == pair.first.s IN
         IF name = "foreground"
             THEN [attrs EXCEPT !.foreground = set_rgb_color(@, pair.second)]
         ELSE IF name = "background"
             THEN [attrs EXCEPT !.background = set_rgb_color(@, pair.second)]
         ELSE IF name = "special"
             THEN [attrs EXCEPT !.special = set_rgb_color(@, pair.second)]
         ELSE IF name \in FlagNames
             THEN [attrs EXCEPT !.flags = @ \cup {name}]
         ELSE attrs

RECURSIVE HlApplyPairs(_, _)
HlApplyPairs(attrs, definition) ==
    IF definition = <<>> THEN attrs
    ELSE HlApplyPairs(HlApplyPair(attrs, Head(definition)), Tail(definition))

\* The swap that bakes reverse video into the entry.
HlSwapReverse(attrs) ==
    IF "reverse" \in attrs.flags
        THEN [attrs EXCEPT !.foreground = attrs.background,
                           !.background = attrs.foreground]
        ELSE attrs

\* ui_controller::hl_attr_define: the new highlight table.
hl_attr_define(table, hlid, definition) ==
    LET new   == hl_new_entry(table, hlid)
        attrs == HlApplyPairs(new.table[new.index + 1], definition)
    IN  [new.table EXCEPT ![new.index + 1] = HlSwapReverse(attrs)]

adjust_defaults_ignores_reverse(def, attrs) ==
    [attrs EXCEPT
        !.foreground = IF is_default(@) THEN def.foreground ELSE @,
        !.background = IF is_default(@) THEN def.background ELSE @,
        !.special    = IF is_default(@) THEN def.special ELSE @]

\* adjust_defaults: resolve the use-default colors of attrs against def.
adjust_defaults(def, attrs) ==
    LET reversed == "reverse" \in attrs.flags IN
    [attrs EXCEPT
        !.foreground = IF is_default(@)
                          THEN (IF reversed THEN def.background
                                            ELSE def.foreground)
                          ELSE @,
        !.background = IF is_default(@)
                          THEN (IF reversed THEN def.foreground
                                            ELSE def.background)
                          ELSE @,
        !.special    = IF is_default(@) THEN def.special ELSE @]


---------------------------------------------------------------------------
(* The grid handlers, as functions of the grid they write.                 *)

\* grid::get(row, col): the position of a cell in the flat cell sequence.
GridIndex(g, row, col) == row * g.grid_width + col

\* ui_controller::grid_resize
grid_resize(g, width, height) ==
    [g EXCEPT !.grid_width = width, !.grid_height = height,
              !.cells = VecResize(g.cells, width * height, EmptyCell)]

\* ui_controller::grid_clear
grid_clear(g, table) ==
    LET empty == [EmptyCell EXCEPT !.attrs.background = table[1].background]
    IN  [g EXCEPT !.cells = [i \in 1..Len(g.cells) |-> empty]]

grid_cursor_goto_inclusive(g, row, col) ==
    IF row > g.grid_height \/ col > g.grid_width
        THEN g
        ELSE [g EXCEPT !.cursor_row = row, !.cursor_col = col]

\* ui_controller::grid_cursor_goto
grid_cursor_goto(g, row, col) ==
    IF row >= g.grid_height \/ col >= g.grid_width
        THEN g
        ELSE [g EXCEPT !.cursor_row = row, !.cursor_col = col]

\* type_check<Ts...>(array)
type_check1(array) == Len(array) = 1 /\ IsStr(array[1])
type_check2(array) == Len(array) = 2 /\ IsStr(array[1]) /\ IsInt(array[2])
type_check3(array) ==
    Len(array) = 3 /\ IsStr(array[1]) /\ IsInt(array[2]) /\ IsInt(array[3])

\* cell_update(): no text, no highlight (nullptr, here <<>>), repeat 0.
\* hlattr is <<>> for nullptr and <<attrs>> for a pointer to attrs.
cell_update_new == [text |-> "", hlattr |-> <<>>, repeat |-> 0, ok |-> TRUE]

cell_update_set_forgets(update, array, table) ==
    IF type_check1(array)
        THEN [update EXCEPT !.text = array[1].s, !.hlattr = <<>>,
                            !.repeat = 1]
    ELSE IF type_check2(array)
        THEN [update EXCEPT !.text = array[1].s, !.repeat = 1,
                 !.hlattr = <<hl_get_entry(table, ToSize(array[2].i))>>]
    ELSE IF type_check3(array)
        THEN [update EXCEPT !.text = array[1].s,
                 !.hlattr = <<hl_get_entry(table, ToSize(array[2].i))>>,
                 !.repeat = ToSize(array[3].i)]
    ELSE [update EXCEPT !.ok = FALSE]

\* cell_update::set: ok is the value returned.
cell_update_set(update, array, table) ==
    IF type_check1(array)
        THEN [update EXCEPT !.text = array[1].s, !.repeat = 1]
    ELSE IF type_check2(array)
        THEN [update EXCEPT !.text = array[1].s, !.repeat = 1,
                 !.hlattr = <<hl_get_entry(table, ToSize(array[2].i))>>]
    ELSE IF type_check3(array)
        THEN [update EXCEPT !.text = array[1].s,
                 !.hlattr = <<hl_get_entry(table, ToSize(array[2].i))>>,
                 !.repeat = ToSize(array[3].i)]
    ELSE [update EXCEPT !.ok = FALSE]

\* *cell = nvim::cell(text, hlattr): with no highlight the cell keeps the
\* attributes it has.
cell_assign(old, text, hlattr) ==
    [text |-> text,
     attrs |-> IF hlattr = <<>> THEN old.attrs ELSE hlattr[1]]

\* The state of the loop of grid_line:
\*   cells      the flat cell sequence of the grid
\*   pos        cell - cells.data()
\*   remaining  the local of that name (a size_t)
\*   update     the cell_update reused by every iteration
\*   status     "loop", or why the handler returned / what went wrong
\*   log        one record per update that the loop reached
LineEntry(j, at, kind, attrs) ==
    [upd |-> j, at |-> at, kind |-> kind, attrs |-> attrs]

\* The cells pos .. pos + n - 1 set to c (those inside the buffer).
FillCells(cells, pos, n, c) ==
    [i \in 1..Len(cells) |->
        IF pos + 1 <= i /\ i <= pos + n THEN c ELSE cells[i]]

\* A loop step that lets an update with empty text repeat.
LineStep_wide_repeats(ls, rowbegin, array, table, j) ==
    LET update == cell_update_set(ls.update, array, table)
        size   == Len(ls.cells)
    IN
    IF ~update.ok
        THEN [ls EXCEPT !.update = update, !.status = "type_error",
                 !.log = Append(@, LineEntry(j, ls.pos, "type_error",
                                             DefaultAttrs))]
    ELSE IF update.repeat > ls.remaining
        THEN [ls EXCEPT !.update = update, !.status = "overflow",
                 !.log = Append(@, LineEntry(j, ls.pos, "overflow",
                                             DefaultAttrs))]
    ELSE IF Len(update.text) = 0
        THEN IF ls.pos = rowbegin
                 THEN [ls EXCEPT !.update = update, !.status = "first_cell",
                          !.log = Append(@, LineEntry(j, ls.pos, "dropped",
                                                      DefaultAttrs))]
             ELSE IF ls.pos >= size
                 \* cell->attrs = ... writes behind the cell sequence
                 THEN [ls EXCEPT !.update = update, !.status = "corrupt",
                          !.log = Append(@, LineEntry(j, ls.pos, "corrupt",
                                                      DefaultAttrs))]
             ELSE LET left == ls.cells[ls.pos]   \* cell - 1, 1-based
                  IN [ls EXCEPT
                        !.update = update,
                        !.cells = [@ EXCEPT
                            ![ls.pos + 1].attrs = left.attrs,
                            ![ls.pos].attrs.flags =
                                left.attrs.flags \cup {"doublewidth"}],
                        !.pos = ls.pos + update.repeat,
                        !.remaining = ToSize(ls.remaining - update.repeat),
                        !.log = Append(@, LineEntry(j, ls.pos, "wide",
                                                    left.attrs))]
    ELSE \* *cell = nvim::cell(text, hlattr); cell[i] = *cell for i < repeat
         IF ls.pos >= size \/ ls.pos + update.repeat > size
             THEN [ls EXCEPT !.update = update, !.status = "corrupt",
                      !.log = Append(@, LineEntry(j, ls.pos, "corrupt",
                                                  DefaultAttrs))]
         ELSE LET c == cell_assign(ls.cells[ls.pos + 1], update.text,
                                   update.hlattr)
              IN [ls EXCEPT
                    !.update = update,
                    !.cells = FillCells(@, ls.pos,
                                 IF update.repeat = 0 THEN 1
                                                      ELSE update.repeat, c),
                    !.pos = ls.pos + update.repeat,
                    !.remaining = ToSize(ls.remaining - update.repeat),
                    !.log = Append(@, LineEntry(j, ls.pos, "glyph", c.attrs))]

\* One iteration of the loop of grid_line, for the update array at j.
LineStep(ls, rowbegin, array, table, j) ==
    LET update == cell_update_set(ls.update, array, table)
        size   == Len(ls.cells)
    IN
    IF ~update.ok
        THEN [ls EXCEPT !.update = update, !.status = "type_error",
                 !.log = Append(@, LineEntry(j, ls.pos, "type_error",
                                             DefaultAttrs))]
    ELSE IF update.repeat > ls.remaining
        THEN [ls EXCEPT !.update = update, !.status = "overflow",
                 !.log = Append(@, LineEntry(j, ls.pos, "overflow",
                                             DefaultAttrs))]
    ELSE IF Len(update.text) = 0
        THEN IF ls.pos = rowbegin
                 THEN [ls EXCEPT !.update = update, !.status = "first_cell",
                          !.log = Append(@, LineEntry(j, ls.pos, "dropped",
                                                      DefaultAttrs))]
             ELSE IF ls.pos >= size
                 \* cell->attrs = ... writes behind the cell sequence
                 THEN [ls EXCEPT !.update = update, !.status = "corrupt",
                          !.log = Append(@, LineEntry(j, ls.pos, "corrupt",
                                                      DefaultAttrs))]
             ELSE LET left == ls.cells[ls.pos]   \* cell - 1, 1-based
                  IN [ls EXCEPT
                        !.update = update,
                        !.cells = [@ EXCEPT
                            ![ls.pos + 1].attrs = left.attrs,
                            ![ls.pos].attrs.flags =
                                left.attrs.flags \cup {"doublewidth"}],
                        !.pos = ls.pos + 1,
                        !.remaining = ToSize(ls.remaining - 1),
                        !.log = Append(@, LineEntry(j, ls.pos, "wide",
                                                    left.attrs))]
    ELSE \* *cell = nvim::cell(text, hlattr); cell[i] = *cell for i < repeat
         IF ls.pos >= size \/ ls.pos + update.repeat > size
             THEN [ls EXCEPT !.update = update, !.status = "corrupt",
                      !.log = Append(@, LineEntry(j, ls.pos, "corrupt",
                                                  DefaultAttrs))]
         ELSE LET c == cell_assign(ls.cells[ls.pos + 1], update.text,
                                   update.hlattr)
              IN [ls EXCEPT
                    !.update = update,
                    !.cells = FillCells(@, ls.pos,
                                 IF update.repeat = 0 THEN 1
                                                      ELSE update.repeat, c),
                    !.pos = ls.pos + update.repeat,
                    !.remaining = ToSize(ls.remaining - update.repeat),
                    !.log = Append(@, LineEntry(j, ls.pos, "glyph", c.attrs))]

RECURSIVE LineLoop(_, _, _, _, _)
LineLoop(ls, rowbegin, cells_arg, table, j) ==
    IF j > Len(cells_arg) \/ ls.status # "loop" THEN ls
    ELSE LineLoop(LineStep(ls, rowbegin, cells_arg[j], table, j),
                  rowbegin, cells_arg, table, j + 1)

\* ui_controller::grid_line on grid g: the final loop state. The status is
\* "bounds" when row or col is outside the grid, "loop" when every update
\* was applied.
grid_line(g, table, row, col, cells_arg) ==
    LET start == [cells |-> g.cells, pos |-> GridIndex(g, row, col),
                  remaining |-> g.grid_width - col,
                  update |-> cell_update_new, status |-> "loop",
                  log |-> <<>>]
    IN  IF row >= g.grid_height \/ col >= g.grid_width
            THEN [start EXCEPT !.status = "bounds"]
            ELSE LineLoop(start, GridIndex(g, row, 0), cells_arg, table, 1)

\* The loop of grid_scroll: count memcpy calls of width cells each, dest and
\* src given as positions in the flat cell sequence.
RECURSIVE ScrollLoop(_, _, _, _, _, _)
ScrollLoop(cells, dest, src, width, row_width, count) ==
    IF count <= 0 THEN cells
    ELSE ScrollLoop(
            [i \in 1..Len(cells) |->
                IF dest + 1 <= i /\ i <= dest + width
                    THEN cells[src + (i - dest)]
                    ELSE cells[i]],
            dest + row_width, src + row_width, width, row_width, count - 1)

\* A scroll that takes a row count beyond the rectangle for the largest one
\* inside it.
grid_scroll_clamps(g, top, bottom, left, right, rows) ==
    LET height == bottom - top
        width  == right - left
        most   == IF height > 0 THEN height - 1 ELSE 0
        by     == IF rows > most THEN most
                  ELSE IF rows < -most THEN -most ELSE rows
        dest   == IF by >= 0 THEN GridIndex(g, top, left)
                             ELSE GridIndex(g, bottom - 1, left)
        row_width == IF by >= 0 THEN g.grid_width ELSE -g.grid_width
        count  == IF by >= 0 THEN height - by ELSE height + by
        src    == dest + g.grid_width * by
    IN  IF bottom > g.grid_height \/ right > g.grid_width
            THEN g
            ELSE [g EXCEPT !.cells = ScrollLoop(@, dest, src, width,
                                                row_width, count)]

\* A scroll that copies from the top row down whatever the direction.
grid_scroll_forward(g, top, bottom, left, right, rows) ==
    LET height == bottom - top
        width  == right - left
        dest   == IF rows >= 0 THEN GridIndex(g, top, left)
                               ELSE GridIndex(g, top - rows, left)
        row_width == g.grid_width
        count  == IF rows >= 0 THEN height - rows ELSE height + rows
        src    == dest + g.grid_width * rows
    IN  IF bottom > g.grid_height \/ right > g.grid_width
            THEN g
            ELSE [g EXCEPT !.cells = ScrollLoop(@, dest, src, width,
                                                row_width, count)]

\* ui_controller::grid_scroll, after the call of get_grid. With rows = 0 each
\* memcpy has dest = src and leaves the row as it is.
grid_scroll(g, top, bottom, left, right, rows) ==
    LET height == bottom - top
        width  == right - left
        dest   == IF rows >= 0 THEN GridIndex(g, top, left)
                               ELSE GridIndex(g, bottom - 1, left)
        row_width == IF rows >= 0 THEN g.grid_width ELSE -g.grid_width
        count  == IF rows >= 0 THEN height - rows ELSE height + rows
        src    == dest + g.grid_width * rows
    IN  IF bottom > g.grid_height \/ right > g.grid_width
            THEN g
            ELSE [g EXCEPT !.cells = ScrollLoop(@, dest, src, width,
                                                row_width, count)]

\* The first test of grid_scroll, made before get_grid is called.
ScrollArgsInvalid(top, bottom, left, right) == bottom < top \/ right < left

\* ui_controller::default_colors_set: the new highlight table.
default_colors_table(table, fg, bg, sp) ==
    LET def == [table[1] EXCEPT !.foreground = RgbDefault(fg),
                                !.background = RgbDefault(bg),
                                !.special = RgbDefault(sp),
                                !.flags = {}]
        with_def == [table EXCEPT ![1] = def]
    IN  [i \in 1..Len(table) |-> adjust_defaults(def, with_def[i])]

\* ui_controller::default_colors_set: the new writing grid.
default_colors_grid(g, def) ==
    [g EXCEPT !.cells =
        [i \in 1..Len(g.cells) |->
            [g.cells[i] EXCEPT !.attrs = adjust_defaults(def, @)]]]

---------------------------------------------------------------------------
(* Cursor modes.                                                           *)

CursorShapes == {"block", "vertical", "horizontal"}

\* to_cursor_shape
to_cursor_shape(object) ==
    IF IsStr(object) /\ object.s \in CursorShapes THEN object.s ELSE "block"

\* to<uint16_t>: a narrowing conversion, 0 for a value that is no integer.
to_uint16(object) == IF IsInt(object) THEN object.i % 65536 ELSE 0

\* to<msg::string>
to_string(object) == IF IsStr(object) THEN object.s ELSE ""

\* set_color_attrs
set_color_attrs(cursor_attrs, table, object) ==
    IF ~IsInt(object) THEN cursor_attrs
    ELSE LET hlid     == ToSize(object.i)
             hl_attrs == hl_get_entry(table, hlid)
         IN  IF hlid # 0
                THEN [cursor_attrs EXCEPT !.special = hl_attrs.special,
                                          !.foreground = hl_attrs.foreground,
                                          !.background = hl_attrs.background]
                ELSE [cursor_attrs EXCEPT !.special = hl_attrs.special,
                                          !.foreground = hl_attrs.background,
                                          !.background = hl_attrs.foreground]

\* mode_info{}
NewModeInfo == [mode_name |-> "", cursor_attrs |-> DefaultCursorAttrs]

\* One iteration of the loop of to_mode_info.
ModeApplyPair(info, table, pair) ==
    IF ~IsStr(pair.first) THEN info
    ELSE LET name == pair.first.s IN
         IF name = "cursor_shape"
            THEN [info EXCEPT !.cursor_attrs.shape =
                                    to_cursor_shape(pair.second)]
         ELSE IF name = "cell_percentage"
            THEN [info EXCEPT !.cursor_attrs.percentage =
                                    to_uint16(pair.second)]
         ELSE IF name = "blinkwait"
            THEN [info EXCEPT !.cursor_attrs.blinkwait =
                                    to_uint16(pair.second)]
         ELSE IF name = "blinkon"
            THEN [info EXCEPT !.cursor_attrs.blinkon = to_uint16(pair.second)]
         ELSE IF name = "blinkoff"
            THEN [info EXCEPT !.cursor_attrs.blinkoff =
                                    to_uint16(pair.second)]
         ELSE IF name = "name"
            THEN [info EXCEPT !.mode_name = to_string(pair.second)]
         ELSE IF name = "attr_id"
            THEN [info EXCEPT !.cursor_attrs =
                                    set_color_attrs(@, table, pair.second)]
         ELSE info

RECURSIVE ModeApplyPairs(_, _, _)
ModeApplyPairs(info, table, map) ==
    IF map = <<>> THEN info
    ELSE ModeApplyPairs(ModeApplyPair(info, table, Head(map)), table,
                        Tail(map))

\* to_mode_info
to_mode_info(table, map) ==
    LET info == ModeApplyPairs(NewModeInfo, table, map)
        ca   == info.cursor_attrs
    IN  IF ca.blinkwait # 0 /\ ca.blinkoff # 0 /\ ca.blinkon # 0
            THEN [info EXCEPT !.cursor_attrs.blinks = TRUE]
            ELSE info

\* A property map of mode_info_set: [is_map |-> BOOLEAN, map |-> pairs];
\* an entry that is no map is skipped.
RECURSIVE mode_info_build(_, _)
mode_info_build(table, property_maps) ==
    IF property_maps = <<>> THEN <<>>
    ELSE LET object == Head(property_maps)
             rest   == mode_info_build(table, Tail(property_maps))
         IN  IF object.is_map
                THEN <<to_mode_info(table, object.map)>> \o rest
                ELSE rest

---------------------------------------------------------------------------
(* Options.                                                                *)

ExtOptions == {"ext_cmdline", "ext_hlstate", "ext_linegrid", "ext_messages",
               "ext_multigrid", "ext_popupmenu", "ext_tabline",
               "ext_termcolors"}

\* options{}
NoOptions == [o \in ExtOptions |-> FALSE]

\* set_ext_option
set_ext_option(opt, value) == IF ~IsBool(value) THEN opt ELSE value.i = 1

\* ui_controller::set_option on the option state
\* [opts, guifont, font_set (calls of window.font_set)].
set_option(st, name, value) ==
    IF name = "guifont"
        THEN IF ~IsStr(value) THEN st
             ELSE [st EXCEPT !.guifont = value.s, !.font_set = @ + 1]
    ELSE IF name \in ExtOptions
        THEN [st EXCEPT !.opts[name] = set_ext_option(@, value)]
    ELSE st

\* apply(this, &ui_controller::set_option, name, args) for well-typed
\* tuples <<name, value>>.
RECURSIVE set_options(_, _)
set_options(st, tuples) ==
    IF tuples = <<>> THEN st
    ELSE set_options(set_option(st, Head(tuples)[1], Head(tuples)[2]),
                     Tail(tuples))

---------------------------------------------------------------------------
(* The double buffer.                                                      *)

get_grid_complete == complete

\* ui_controller::get_grid(1): the grid the handlers write.
get_grid == writing

flush_grids_no_copy(gs, w, c) ==
    [grids |-> [gs EXCEPT ![w].draw_tick = @ + 1], writing |-> c,
     complete |-> w]

flush_grids_no_tick(gs, w, c) ==
    [grids |-> [gs EXCEPT ![c] = gs[w]], writing |-> c, complete |-> w]

\* ui_controller::flush, the grids: the tick, the exchange and the copy.
flush_grids(gs, w, c) ==
    LET completed == w
        ticked    == [gs EXCEPT ![completed].draw_tick = @ + 1]
        new_writing == c      \* writing = complete.exchange(completed)
    IN  [grids |-> [ticked EXCEPT ![new_writing] = ticked[completed]],
         writing |-> new_writing, complete |-> completed]

flush_notify_keeps_wait(fw, counts) ==
    IF fw THEN [flush_wait |-> TRUE,
                cb |-> [counts EXCEPT !.signal = @ + 1]]
          ELSE [flush_wait |-> FALSE,
                cb |-> [counts EXCEPT !.redraw = @ + 1]]

\* ui_controller::flush, the notification.
flush_notify(fw, counts) ==
    IF fw THEN [flush_wait |-> FALSE,
                cb |-> [counts EXCEPT !.signal = @ + 1]]
          ELSE [flush_wait |-> FALSE,
                cb |-> [counts EXCEPT !.redraw = @ + 1]]

---------------------------------------------------------------------------
(* The state after construction.                                           *)

NoCallbacks ==
    [redraw |-> 0, title_set |-> 0, font_set |-> 0, options_set |-> 0,
     signal |-> 0]

\* The reader has loaded nothing.
ReaderIdle ==
    [pc |-> "idle", ptr |-> 0, snap |-> EmptyGrid, frames |-> {},
     spanned |-> FALSE, overlapped |-> FALSE]

\* No handler invocation is on record. A record holds the handler (op), its
\* grid id, row and column, its cell updates, its other arguments (args),
\* the writing grid before the invocation, and what grid_line logged.
NoCall ==
    [op |-> "none", id |-> 0, row |-> 0, col |-> 0, updates |-> <<>>,
     args |-> <<>>, before |-> EmptyGrid, status |-> "", log |-> <<>>]

Init ==
    /\ grids = [i \in {0, 1} |-> EmptyGrid]
    /\ writing = 0
    /\ complete = 1
    /\ hltable = <<DefaultAttrs>>
    /\ mode_info_table = <<>>
    /\ current_mode = 0
    /\ opts = NoOptions
    /\ option_guifont = ""
    /\ option_title = ""
    /\ flush_wait = FALSE
    /\ proc = "running"
    /\ cb = NoCallbacks
    /\ nevents = 0
    /\ rd = ReaderIdle
    /\ call = NoCall

---------------------------------------------------------------------------
(* The handlers as actions. Each is one invocation of a handler by         *)
(* apply_one with a well-typed argument tuple.                             *)

gridVars   == <<grids, writing, complete>>
modeVars   == <<mode_info_table, current_mode>>
optionVars == <<opts, option_guifont, option_title>>

\* A handler runs: the process is alive and the event budget is not spent.
Handle ==
    /\ proc = "running"
    /\ nevents < MaxEvents
    /\ nevents' = nevents + 1

\* std::abort() in get_grid: nothing else changes. The invocation is kept
\* on record as c.
AbortRecorded(c) ==
    /\ proc' = "aborted"
    /\ UNCHANGED <<gridVars, hltable, modeVars, optionVars, flush_wait, cb,
                   rd>>
    /\ call' = c

\* The record of an invocation of handler op on the grid id, or no record.
Invocation(record, op, id, row, col, args) ==
    IF record
        THEN [NoCall EXCEPT !.op = op, !.id = id, !.row = row, !.col = col,
                            !.args = args, !.before = grids[writing]]
        ELSE NoCall

\* The handler wrote grid g2 to the grid get_grid returns; a read in
\* progress has now overlapped a write of the event side.
WriteGrid(g2) ==
    /\ grids' = [grids EXCEPT ![get_grid] = g2]
    /\ rd' = IF rd.pc \in {"loaded", "half"} /\ g2 # grids[get_grid]
                THEN [rd EXCEPT !.overlapped = TRUE]
                ELSE rd
    /\ UNCHANGED <<writing, complete, hltable, modeVars, optionVars,
                   flush_wait, cb>>

\* record: whether the invocation is kept in call (an aborted one without
\* its arguments).
GridResize(Ids, Dims, record) ==
    \E id \in Ids, d \in Dims :
        /\ Handle
        /\ IF id # 1
              THEN AbortRecorded(Invocation(record, "grid_resize", id, 0, 0,
                                            <<>>))
           ELSE /\ WriteGrid(grid_resize(grids[get_grid], d[1], d[2]))
                /\ proc' = proc
                /\ call' = Invocation(record, "grid_resize", id, 0, 0, d)

\* record: whether the invocation is kept in call.
GridLine(Ids, Rows, Cols, Lists, record) ==
    \E id \in Ids, row \in Rows, col \in Cols, cells_arg \in Lists :
        /\ Handle
        /\ IF id # 1
              THEN AbortRecorded(Invocation(record, "grid_line", id, 0, 0,
                                            <<>>))
           ELSE LET g  == grids[get_grid]
                    ls == grid_line(g, hltable, row, col, cells_arg)
                IN  /\ WriteGrid([g EXCEPT !.cells = ls.cells])
                    \* a write behind the cell sequence: the process
                    \* crashes, or goes on with a clobbered heap
                    /\ IF ls.status = "corrupt"
                          THEN proc' \in {"aborted", "corrupt"}
                          ELSE proc' = proc
                    /\ call' = IF record
                                  THEN [op |-> "grid_line", id |-> id,
                                        row |-> row, col |-> col,
                                        updates |-> cells_arg,
                                        args |-> <<>>, before |-> g,
                                        status |-> ls.status,
                                        log |-> ls.log]
                                  ELSE NoCall

GridClear(Ids, record) ==
    \E id \in Ids :
        /\ Handle
        /\ IF id # 1
              THEN AbortRecorded(Invocation(record, "grid_clear", id, 0, 0,
                                            <<>>))
           ELSE /\ WriteGrid(grid_clear(grids[get_grid], hltable))
                /\ proc' = proc
                /\ call' = Invocation(record, "grid_clear", id, 0, 0, <<>>)

GridCursorGoto(Ids, Rows, Cols, record) ==
    \E id \in Ids, row \in Rows, col \in Cols :
        /\ Handle
        /\ IF id # 1
              THEN AbortRecorded(Invocation(record, "grid_cursor_goto", id,
                                            0, 0, <<>>))
           ELSE /\ WriteGrid(grid_cursor_goto(grids[get_grid], ToSize(row),
                                              ToSize(col)))
                /\ proc' = proc
                /\ call' = Invocation(record, "grid_cursor_goto", id, row,
                                      col, <<>>)

\* Rects: tuples <<top, bottom, left, right, rows>>.
GridScroll(Ids, Rects, record) ==
    \E id \in Ids, r \in Rects :
        /\ Handle
        /\ IF ScrollArgsInvalid(r[1], r[2], r[3], r[4])
              THEN /\ UNCHANGED <<gridVars, hltable, modeVars, optionVars,
                                  flush_wait, cb, rd, proc>>
                   /\ call' = Invocation(record, "grid_scroll", id, 0, 0, r)
           ELSE IF id # 1
              THEN AbortRecorded(Invocation(record, "grid_scroll", id, 0, 0,
                                            <<>>))
           ELSE /\ WriteGrid(grid_scroll(grids[get_grid], r[1], r[2], r[3],
                                         r[4], r[5]))
                /\ proc' = proc
                /\ call' = Invocation(record, "grid_scroll", id, 0, 0, r)

Flush ==
    /\ Handle
    /\ LET f == flush_grids(grids, writing, complete)
           n == flush_notify(flush_wait, cb)
       IN  /\ grids' = f.grids
           /\ writing' = f.writing
           /\ complete' = f.complete
           /\ flush_wait' = n.flush_wait
           /\ cb' = n.cb
           \* a read in progress now spans a flush
           /\ rd' = IF rd.pc \in {"loaded", "half"}
                       THEN [rd EXCEPT !.spanned = TRUE,
                                !.frames = @ \cup {f.grids[f.complete]}]
                       ELSE rd
    /\ UNCHANGED <<hltable, modeVars, optionVars, proc>>
    /\ call' = NoCall

\* Defs: pairs <<hlid, definition>>.
HlAttrDefine(Defs) ==
    \E d \in Defs :
        /\ Handle
        /\ hltable' = hl_attr_define(hltable, ToSize(d[1]), d[2])
        /\ call' = NoCall
        /\ UNCHANGED <<gridVars, modeVars, optionVars, flush_wait, cb, rd,
                       proc>>

\* Colors: tuples <<fg, bg, sp>>.
DefaultColorsSet(Colors) ==
    \E c \in Colors :
        /\ Handle
        /\ hltable' = default_colors_table(hltable, c[1], c[2], c[3])
        /\ grids' = [grids EXCEPT
                        ![writing] = default_colors_grid(@, hltable'[1])]
        /\ call' = NoCall
        /\ UNCHANGED <<writing, complete, modeVars, optionVars, flush_wait,
                       cb, rd, proc>>

ModeInfoSet(MapLists) ==
    \E property_maps \in MapLists :
        /\ Handle
        /\ mode_info_table' = mode_info_build(hltable, property_maps)
        /\ current_mode' = 0
        /\ call' = NoCall
        /\ UNCHANGED <<gridVars, hltable, optionVars, flush_wait, cb, rd,
                       proc>>

ModeChange(Indexes) ==
    \E index \in Indexes :
        /\ Handle
        /\ grids' = IF index >= Len(mode_info_table) THEN grids
                    ELSE [grids EXCEPT ![writing].cursor_attrs =
                            mode_info_table[index + 1].cursor_attrs]
        /\ call' = NoCall
        /\ UNCHANGED <<writing, complete, hltable, modeVars, optionVars,
                       flush_wait, cb, rd, proc>>

SetTitle(Titles) ==
    \E new_title \in Titles :
        /\ Handle
        /\ option_title' = new_title
        /\ cb' = [cb EXCEPT !.title_set = @ + 1]
        /\ call' = NoCall
        /\ UNCHANGED <<gridVars, hltable, modeVars, opts, option_guifont,
                       flush_wait, rd, proc>>

\* One option_set event of redraw_event: TupleLists are lists of
\* <<name, value>> tuples.
OptionSet(TupleLists) ==
    \E tuples \in TupleLists :
        /\ Handle
        /\ LET oldopts == opts
               st == set_options([opts |-> opts, guifont |-> option_guifont,
                                  font_set |-> cb.font_set], tuples)
           IN  /\ opts' = st.opts
               /\ option_guifont' = st.guifont
               /\ cb' = [cb EXCEPT
                            !.font_set = st.font_set,
                            !.options_set = IF st.opts # oldopts
                                               THEN @ + 1 ELSE @]
        /\ call' = NoCall
        /\ UNCHANGED <<gridVars, hltable, modeVars, option_title, flush_wait,
                       rd, proc>>

---------------------------------------------------------------------------
(* The rendering side.                                                     *)

ctlVars == <<hltable, mode_info_table, current_mode, opts, option_guifont,
             option_title, proc, cb, nevents, call>>

\* A caller registers a semaphore to be signalled by the next flush; a
\* second waiter is not supported.
RegisterFlushWait ==
    /\ proc = "running"
    /\ ~flush_wait
    /\ flush_wait' = TRUE
    /\ UNCHANGED <<gridVars, ctlVars, rd>>

\* The reader loads the complete pointer.
ReaderLoad ==
    /\ rd.pc = "idle"
    /\ rd' = [pc |-> "loaded", ptr |-> complete, snap |-> EmptyGrid,
              frames |-> {grids[complete]}, spanned |-> FALSE,
              overlapped |-> FALSE]
    /\ UNCHANGED <<gridVars, ctlVars, flush_wait>>

\* The reader reads the first part of the grid it holds: its dimensions
\* and its cells.
ReaderReadCells ==
    /\ rd.pc = "loaded"
    /\ rd' = [rd EXCEPT !.pc = "half",
                 !.snap.grid_width = grids[rd.ptr].grid_width,
                 !.snap.grid_height = grids[rd.ptr].grid_height,
                 !.snap.cells = grids[rd.ptr].cells]
    /\ UNCHANGED <<gridVars, ctlVars, flush_wait>>

\* The reader reads the rest: the cursor and the tick.
ReaderReadCursor ==
    /\ rd.pc = "half"
    /\ rd' = [rd EXCEPT !.pc = "done",
                 !.snap.cursor_row = grids[rd.ptr].cursor_row,
                 !.snap.cursor_col = grids[rd.ptr].cursor_col,
                 !.snap.cursor_attrs = grids[rd.ptr].cursor_attrs,
                 !.snap.draw_tick = grids[rd.ptr].draw_tick]
    /\ UNCHANGED <<gridVars, ctlVars, flush_wait>>

---------------------------------------------------------------------------
(* The controller with both sides running: every handler, with a few       *)
(* arguments each, interleaved with the reader and the flush waiter.       *)

GridIds == {1, 2}

S(text)            == <<MStr(text)>>
SH(text, hl)       == <<MStr(text), MInt(hl)>>
SHR(text, hl, rep) == <<MStr(text), MInt(hl), MInt(rep)>>

HlReverseDef == <<Pair(MStr("foreground"), MInt(5)),
                  Pair(MStr("reverse"), MBool(TRUE))>>
HlPlainDef   == <<Pair(MStr("background"), MInt(6)),
                  Pair(MStr("bold"), MBool(TRUE))>>

MainDims    == {<<2, 2>>, <<1, 1>>}
MainLines   == {<<SH("a", 1)>>, <<SHR("b", 2, 2), S("")>>}
MainRects   == {<<0, 2, 0, 2, 1>>, <<0, 2, 0, 1, -1>>, <<1, 0, 0, 0, 1>>}
MainDefs    == {<<1, HlReverseDef>>, <<2, HlPlainDef>>}
MainColors  == {<<1, 2, 3>>}
MainModes   == {<< [is_map |-> TRUE,
                    map |-> <<Pair(MStr("cursor_shape"), MStr("vertical")),
                              Pair(MStr("attr_id"), MInt(1))>>] >>}
MainOptions == {<< <<"ext_linegrid", MBool(TRUE)>> >>,
                << <<"guifont", MStr("Menlo:h14")>> >>}

Next ==
    \/ GridResize(GridIds, MainDims, FALSE)
    \/ GridLine(GridIds, {0}, {0}, MainLines, FALSE)
    \/ GridClear(GridIds, FALSE)
    \/ GridCursorGoto(GridIds, {0, 1}, {1}, FALSE)
    \/ GridScroll(GridIds, MainRects, FALSE)
    \/ Flush
    \/ HlAttrDefine(MainDefs)
    \/ DefaultColorsSet(MainColors)
    \/ ModeInfoSet(MainModes)
    \/ ModeChange({0, 1})
    \/ SetTitle({"t"})
    \/ OptionSet(MainOptions)
    \/ RegisterFlushWait
    \/ ReaderLoad
    \/ ReaderReadCells
    \/ ReaderReadCursor

Spec == Init /\ [][Next]_vars

---------------------------------------------------------------------------
(* The double buffer: publication by flush.                                *)

\* The grid behind the complete pointer, and the flushes made so far (each
\* flush fires exactly one of the two notifications counted in cb).
Published == grids[complete]
Flushes   == cb.redraw + cb.signal

\* C1: after every flush the grid that becomes the writing target has the
\* same content (dimensions, cells, cursor, cursor attributes, version tick)
\* as the grid the flush published through the complete pointer.
C1_FlushCopiesPublished ==
    [][Flush => grids'[writing'] = grids'[complete']]_vars

\* A flush has published a grid with cells and the writing grid equals it.
C1_Witness ==
    /\ Flushes >= 1
    /\ Published.draw_tick >= 1
    /\ Published.cells # <<>>
    /\ grids[writing] = Published
    /\ writing # complete

\* C2: the tick published by a flush is one greater than the tick published
\* by the flush before it, whatever events come between the two: every
\* flush after the first raises the published tick by exactly one and no
\* other step changes it.
C2_TicksSuccessive ==
    [][/\ (Flush /\ Flushes >= 1)
            => grids'[complete'].draw_tick = Published.draw_tick + 1
       /\ ~Flush => grids'[complete'].draw_tick = Published.draw_tick]_vars

\* Two flushes so far, with handlers having written in between and after.
C2_Witness ==
    /\ Flushes >= 2
    /\ Published.draw_tick >= 2
    /\ Published.cells # <<>>
    /\ grids[writing].cells # Published.cells

\* C3 as claimed: whatever the interleaving, a finished read is the content
\* of one frame published no earlier than the one the reader loaded.
C3_ReaderSeesOneFrame ==
    rd.pc = "done" => rd.snap \in rd.frames

\* C3 as amended: a read that no flush interrupts, whatever other handlers
\* run during it, is the content of the frame that was published when the
\* reader loaded the complete pointer.
C3_ReaderSeesFrameUnlessFlushed ==
    (rd.pc = "done" /\ ~rd.spanned) => rd.frames = {rd.snap}

\* A read has finished that no flush interrupted, of a frame a flush
\* published, while a handler changed the writing grid during the read.
C3_Witness ==
    /\ rd.pc = "done"
    /\ ~rd.spanned
    /\ rd.snap.draw_tick >= 1
    /\ rd.snap.cells # <<>>
    /\ rd.overlapped

\* C4: the writing and the complete pointer always name different grids,
\* and a step that is no flush changes neither the complete pointer nor
\* the grid it names.
C4_CompleteOnlyChangedByFlush ==
    /\ writing # complete
    /\ [][/\ writing' # complete'
          /\ ~Flush => (complete' = complete /\ grids'[complete] = Published)
         ]_vars

\* After a flush, handlers have changed the writing grid: its cells, its
\* cursor and its cursor attributes differ from the published ones.
C4_Witness ==
    /\ Flushes >= 1
    /\ grids[writing].cells # Published.cells
    /\ grids[writing].cursor_col # Published.cursor_col

\* C5: a flush with a registered wait signals it once, unregisters it and
\* does not call redraw(); a flush with none calls redraw() once and signals
\* nothing. No other step signals, calls redraw() or unregisters a wait, so
\* a wait is released by the first flush after it was registered only.
C5_OneNotificationPerFlush ==
    [][/\ Flush =>
            IF flush_wait
                THEN /\ cb'.signal = cb.signal + 1
                     /\ cb'.redraw = cb.redraw
                     /\ ~flush_wait'
                ELSE /\ cb'.redraw = cb.redraw + 1
                     /\ cb'.signal = cb.signal
                     /\ ~flush_wait'
       /\ ~Flush =>
            /\ cb'.signal = cb.signal
            /\ cb'.redraw = cb.redraw
            /\ (flush_wait => flush_wait')]_vars

\* One wait has been released by a flush, later flushes called redraw().
C5_Witness ==
    /\ cb.signal = 1
    /\ cb.redraw >= 1
    /\ ~flush_wait

---------------------------------------------------------------------------
(* The highlight table on its own: definitions of every id up to MaxHlId   *)
(* and changes of the default colors, in every order.                      *)

HlIds    == 0..MaxHlId
HlDefs   == HlIds \X {<<>>, HlReverseDef, HlPlainDef}
HlColors == {<<1, 2, 3>>, <<7, 8, 9>>}

NextHl ==
    \/ HlAttrDefine(HlDefs)
    \/ DefaultColorsSet(HlColors)

SpecHl == Init /\ [][NextHl]_vars

\* The ids resolve is asked for: every id of the table, some beyond it, and
\* the largest size_t (what a negative id converts to).
ResolveIds == (0..(MaxHlId + 2)) \cup {SIZE_MAX}

\* C6: the highlight table always has the id-0 entry and never shrinks, and
\* for every id resolve returns an entry without reading past the table:
\* the entry stored at the id if the id is below the table length, the id-0
\* entry otherwise.
C6_ResolveTotal ==
    /\ [](/\ Len(hltable) >= 1
          /\ \A i \in ResolveIds :
                LET r == hl_get_entry(hltable, i) IN
                /\ r # OutOfRange
                /\ i < Len(hltable) => r = hltable[i + 1]
                /\ i >= Len(hltable) => r = hltable[1])
    /\ [][Len(hltable') >= Len(hltable)]_vars

\* A table with defined entries that differ from the default one; an id
\* beyond it resolves to the default entry.
C6_Witness ==
    /\ Len(hltable) >= 3
    /\ hltable[2] # hltable[1]
    /\ hl_get_entry(hltable, 1) = hltable[2]
    /\ hl_get_entry(hltable, Len(hltable)) = hltable[1]
    /\ hl_get_entry(hltable, SIZE_MAX) = hltable[1]

\* C7 as claimed: defining id k in a table of length n <= k makes the table
\* k + 1 long, with the entry for k itself, fills the ids n .. k-1 with
\* copies of the id-0 entry as it was, and leaves the ids below n unchanged.
C7_DefineBackfills ==
    [][\A d \in HlDefs :
         LET k == d[1]
             n == Len(hltable)
         IN  (HlAttrDefine({d}) /\ n <= k) =>
                /\ Len(hltable') = k + 1
                /\ \A i \in n..(k - 1) : hltable'[i + 1] = hltable[1]
                /\ \A i \in 0..(n - 1) : hltable'[i + 1] = hltable[i + 1]
      ]_vars

\* C8 as claimed: for every id k >= 1, whatever the table length, after
\* hl_attr_define(k, {foreground: 5, reverse: true}) id k resolves to an
\* entry with background 5, the foreground that was the id-0 background, and
\* the reverse flag.
C8_ReverseDefineThenResolve ==
    [][\A k \in HlIds \ {0} :
         HlAttrDefine({<<k, HlReverseDef>>}) =>
            LET r == hl_get_entry(hltable', k) IN
            /\ r.background = Rgb(5)
            /\ r.foreground = hltable[1].background
            /\ "reverse" \in r.flags
      ]_vars

---------------------------------------------------------------------------
(* grid_line on its own: one invocation, with every argument list up to    *)
(* the bounds, on a grid of every size up to the bounds, either fresh from *)
(* grid_resize or painted by earlier grid_line events.                     *)

\* The highlight table after default_colors_set(1, 2, 3) and the definition
\* of the ids 1 and 2.
LineTable ==
    hl_attr_define(
        hl_attr_define(default_colors_table(<<DefaultAttrs>>, 1, 2, 3),
                       1, HlReverseDef),
        2, HlPlainDef)

\* The grid after grid_resize(1, width, height) and, if painted, one
\* grid_line event per row that fills the row with "z" in highlight 2.
RECURSIVE PaintRows(_, _)
PaintRows(g, row) ==
    IF row >= g.grid_height THEN g
    ELSE PaintRows(
            [g EXCEPT !.cells =
                grid_line(g, LineTable, row, 0,
                          <<SHR("z", 2, g.grid_width)>>).cells],
            row + 1)

LineGrid(width, height, painted) ==
    LET g == grid_resize(EmptyGrid, width, height)
    IN  IF painted THEN PaintRows(g, 0) ELSE g

InitLine ==
    /\ \E width \in 1..MaxWidth, height \in 1..MaxHeight, painted \in BOOLEAN :
          grids = [i \in {0, 1} |->
                      IF i = 0 THEN LineGrid(width, height, painted)
                               ELSE EmptyGrid]
    /\ writing = 0
    /\ complete = 1
    /\ hltable = LineTable
    /\ mode_info_table = <<>>
    /\ current_mode = 0
    /\ opts = NoOptions
    /\ option_guifont = ""
    /\ option_title = ""
    /\ flush_wait = FALSE
    /\ proc = "running"
    /\ cb = NoCallbacks
    /\ nevents = 0
    /\ rd = ReaderIdle
    /\ call = NoCall

\* The cell updates of the argument lists.
LineUpdates ==
    {S("a"), SH("a", 1), S(""), SHR("b", 2, 2), SHR("", 1, 0)}

RECURSIVE SeqsUpTo(_, _)
SeqsUpTo(set, n) ==
    IF n = 0 THEN {<<>>}
    ELSE LET shorter == SeqsUpTo(set, n - 1)
         IN  shorter \cup {Append(q, x) : q \in shorter, x \in set}

LineLists == SeqsUpTo(LineUpdates, MaxUpdates)

NextLine ==
    /\ call.op = "none"
    /\ GridLine(GridIds, 0..MaxHeight, 0..MaxWidth, LineLists, TRUE)

SpecLine == InitLine /\ [][NextLine]_vars

\* The cell update a log entry is about, and whether it names a highlight.
UpdateOf(e)  == call.updates[e.upd]
OmitsId(e)   == Len(UpdateOf(e)) = 1
RepeatOf(e)  == IF Len(UpdateOf(e)) = 3 THEN ToSize(UpdateOf(e)[3].i) ELSE 1

\* The log entries, of the same event, before entry j that name a highlight.
NamedBefore(j) == {i \in 1..(j - 1) : ~OmitsId(call.log[i])}

\* The attributes an update that omits the highlight id is to write: those
\* of the highlight of the last update before it, in the same event, that
\* names one; if there is none, those the cell to be written has.
CarriedAttrs(j) ==
    IF NamedBefore(j) = {}
        THEN call.before.cells[call.log[j].at + 1].attrs
        ELSE LET i == CHOOSE x \in NamedBefore(j) :
                        \A y \in NamedBefore(j) : y <= x
             IN  hl_get_entry(hltable, ToSize(UpdateOf(call.log[i])[2].i))

ColsLeft(e) ==
    LET width == call.before.grid_width
        used  == e.at - GridIndex(call.before, call.row, 0)
    IN  IF used >= width THEN 0 ELSE width - used

\* C10 as claimed: an update whose repeat count is greater than the number
\* of columns that remain in the row is not applied and ends the tuple: the
\* grid holds what the updates before it wrote and is otherwise unchanged,
\* and the process goes on.
C10_OverflowEndsTuple ==
    call.op = "grid_line" =>
        \A j \in 1..Len(call.log) :
            RepeatOf(call.log[j]) > ColsLeft(call.log[j]) =>
                /\ call.log[j].kind = "overflow"
                /\ j = Len(call.log)
                /\ proc = "running"
                /\ grids[writing].cells =
                      grid_line(call.before, hltable, call.row, call.col,
                                SubSeq(call.updates, 1, j - 1)).cells

---------------------------------------------------------------------------
(* The grid handlers on their own: one invocation, with every argument up  *)
(* to the bounds, on a grid of every size up to the bounds in which every  *)
(* cell holds a different text and the cursor is on the last cell.         *)

CellNames ==
    <<"a", "b", "c", "d", "e", "f", "g", "h", "i", "j", "k", "l", "m", "n",
      "o", "p", "q", "r", "s", "t", "u", "v", "w", "x", "y", "z">>

\* The cell updates of the grid_line event that names the cells of a row.
RowNames(width, row) ==
    [c \in 1..width |->
        S(CellNames[((row * width + c - 1) % Len(CellNames)) + 1])]

\* The grid after one grid_line event per row.
RECURSIVE NameRows(_, _)
NameRows(g, row) ==
    IF row >= g.grid_height THEN g
    ELSE NameRows(
            [g EXCEPT !.cells =
                grid_line(g, <<DefaultAttrs>>, row, 0,
                          RowNames(g.grid_width, row)).cells],
            row + 1)

\* The grid after grid_resize(1, width, height), the grid_line events and
\* grid_cursor_goto(1, height - 1, width - 1).
NamedGrid(width, height) ==
    grid_cursor_goto(NameRows(grid_resize(EmptyGrid, width, height), 0),
                     ToSize(height - 1), ToSize(width - 1))

GridWidths  == 0..MaxWidth
GridHeights == 0..(MaxHeight + 1)

InitGrid ==
    /\ \E width \in GridWidths, height \in GridHeights :
          grids = [i \in {0, 1} |->
                      IF i = 0 THEN NamedGrid(width, height) ELSE EmptyGrid]
    /\ writing = 0
    /\ complete = 1
    /\ hltable = <<DefaultAttrs>>
    /\ mode_info_table = <<>>
    /\ current_mode = 0
    /\ opts = NoOptions
    /\ option_guifont = ""
    /\ option_title = ""
    /\ flush_wait = FALSE
    /\ proc = "running"
    /\ cb = NoCallbacks
    /\ nevents = 0
    /\ rd = ReaderIdle
    /\ call = NoCall

\* Rows and columns up to one past the largest grid, and the largest size_t.
RowArgs == 0..(MaxHeight + 2)
ColArgs == 0..(MaxWidth + 1)

\* Rectangles and row counts of grid_scroll: inside and outside the grid,
\* empty and inverted, scrolled up and down by less and by more than their
\* height.
ScrollRects ==
    RowArgs \X RowArgs \X ColArgs \X ColArgs
        \X (-(MaxHeight + 2)..(MaxHeight + 2))

\* The rectangles sent with a grid id other than 1.
OtherRects == {<<0, 1, 0, 1, 1>>, <<1, 0, 0, 0, 1>>, <<0, 0, 1, 0, 0>>}

NextGrid ==
    \/ call.op = "none" /\ GridScroll({1}, ScrollRects, TRUE)
    \/ call.op = "none" /\ GridScroll(GridIds \ {1}, OtherRects, TRUE)
    \/ call.op = "none"
         /\ GridCursorGoto(GridIds, RowArgs \cup {SIZE_MAX},
                           ColArgs \cup {SIZE_MAX}, TRUE)
    \/ call.op = "none" /\ GridResize(GridIds, MainDims, TRUE)
    \/ call.op = "none" /\ GridClear(GridIds, TRUE)
    \/ call.op = "none"
         /\ GridLine(GridIds, {0, MaxHeight + 2}, {0}, MainLines, TRUE)

SpecGrid == InitGrid /\ [][NextGrid]_vars

\* The arguments of the grid_scroll on record.
ScrollTop    == call.args[1]
ScrollBottom == call.args[2]
ScrollLeft   == call.args[3]
ScrollRight  == call.args[4]
ScrollRows   == call.args[5]

\* A grid_scroll on grid 1 is on record and its rectangle passes both
\* validations: it is not inverted and it lies inside the grid.
ScrollValidated ==
    /\ call.op = "grid_scroll"
    /\ call.id = 1
    /\ ScrollTop <= ScrollBottom
    /\ ScrollLeft <= ScrollRight
    /\ ScrollBottom <= call.before.grid_height
    /\ ScrollRight <= call.before.grid_width

\* The cell at (row, col) of grid g.
CellAt(g, row, col) == g.cells[GridIndex(g, row, col) + 1]

\* C11: a grid_scroll with rows = 0, or with |rows| at least the height of
\* the rectangle, on a rectangle that passes validation (the empty one
\* included) leaves the whole writing grid as it was: cells, dimensions and
\* cursor.
C11_ScrollNoOp ==
    (/\ ScrollValidated
     /\ \/ ScrollRows = 0
        \/ ScrollRows >= ScrollBottom - ScrollTop
        \/ -ScrollRows >= ScrollBottom - ScrollTop)
        => /\ grids[writing] = call.before
           /\ proc = "running"

\* A scroll by the full height of a rectangle of two rows or more, upwards,
\* on record on a grid that holds a different text in every cell.
C11_Witness ==
    /\ ScrollValidated
    /\ ScrollBottom - ScrollTop >= 2
    /\ ScrollRight - ScrollLeft >= 2
    /\ ScrollRows = ScrollBottom - ScrollTop
    /\ ScrollBottom < call.before.grid_height
    /\ grids[writing] = call.before

\* C12: grid_cursor_goto(1, row, col) moves the cursor of the writing grid
\* to (row, col) exactly when row < height and col < width; otherwise the
\* cursor stays where it was. Either way nothing else of the grid changes
\* and the process goes on.
C12_CursorGotoBounds ==
    (call.op = "grid_cursor_goto" /\ call.id = 1) =>
        LET g == grids[writing]
            b == call.before
            inside == call.row < b.grid_height /\ call.col < b.grid_width
        IN  /\ proc = "running"
            /\ inside => g.cursor_row = call.row /\ g.cursor_col = call.col
            /\ ~inside => /\ g.cursor_row = b.cursor_row
                          /\ g.cursor_col = b.cursor_col
            /\ g = [b EXCEPT !.cursor_row = g.cursor_row,
                             !.cursor_col = g.cursor_col]

\* The cursor was moved from the last cell to the first column of the last
\* row of a grid.
C12_Witness ==
    /\ call.op = "grid_cursor_goto"
    /\ call.id = 1
    /\ call.before.grid_width >= 2
    /\ call.row = call.before.grid_height - 1
    /\ call.col = 0
    /\ call.before.cursor_col = call.before.grid_width - 1
    /\ grids[writing].cursor_row = call.row
    /\ grids[writing].cursor_col = 0

---------------------------------------------------------------------------
(* Changes of the default colors. The controller starts with the default   *)
(* colors (1, 2, 3) set, the highlights 1 (reverse video) and 2 defined    *)
(* and a grid, fresh or painted in highlight 2; it then handles every      *)
(* sequence of the events below.                                           *)

InitColors ==
    /\ \E painted \in BOOLEAN :
          grids = [i \in {0, 1} |->
                      IF i = 0 THEN LineGrid(2, 1, painted) ELSE EmptyGrid]
    /\ writing = 0
    /\ complete = 1
    /\ hltable = LineTable
    /\ mode_info_table = <<>>
    /\ current_mode = 0
    /\ opts = NoOptions
    /\ option_guifont = ""
    /\ option_title = ""
    /\ flush_wait = FALSE
    /\ proc = "running"
    /\ cb = NoCallbacks
    /\ nevents = 0
    /\ rd = ReaderIdle
    /\ call = NoCall

\* Highlight 1 redefined without reverse video, highlight 3 defined with it.
ColorDefs == {<<1, HlPlainDef>>, <<3, HlReverseDef>>}

NextColors ==
    \/ DefaultColorsSet(HlColors)
    \/ HlAttrDefine(ColorDefs)
    \/ GridLine({1}, {0}, {0}, MainLines, FALSE)
    \/ GridClear({1}, FALSE)
    \/ Flush
    \/ ModeInfoSet(MainModes)
    \/ ModeChange({0, 1})

SpecColors == InitColors /\ [][NextColors]_vars

\* What default_colors_set(fg, bg, sp) is to make of a color that is held
\* by attributes with the given flags: a use-default color becomes the new
\* default of its kind, of the other kind for foreground and background
\* under reverse video; any other color stays.
NewForeground(color, flags, fg, bg) ==
    IF ~color.def THEN color
    ELSE IF "reverse" \in flags THEN RgbDefault(bg) ELSE RgbDefault(fg)

NewBackground(color, flags, fg, bg) ==
    IF ~color.def THEN color
    ELSE IF "reverse" \in flags THEN RgbDefault(fg) ELSE RgbDefault(bg)

NewSpecial(color, sp) == IF ~color.def THEN color ELSE RgbDefault(sp)

Recolored(attrs, fg, bg, sp) ==
    [foreground |-> NewForeground(attrs.foreground, attrs.flags, fg, bg),
     background |-> NewBackground(attrs.background, attrs.flags, fg, bg),
     special    |-> NewSpecial(attrs.special, sp),
     flags      |-> attrs.flags]

\* C13: default_colors_set(fg, bg, sp) rewrites the id-0 entry, replaces the
\* use-default colors of every other entry of the highlight table and of
\* every cell of the writing grid with the new defaults (foreground and
\* background exchanged under reverse video), leaves every other color,
\* every text, the dimensions, the cursor and its colors, the mode table and
\* the published grid as they were.
C13_DefaultColorsReplaced ==
    [][\A c \in HlColors :
         DefaultColorsSet({c}) =>
            LET fg == c[1]
                bg == c[2]
                sp == c[3]
                w  == grids[writing]
                w2 == grids'[writing]
            IN  /\ hltable'[1] = [foreground |-> RgbDefault(fg),
                                  background |-> RgbDefault(bg),
                                  special |-> RgbDefault(sp), flags |-> {}]
                /\ Len(hltable') = Len(hltable)
                /\ \A i \in 2..Len(hltable) :
                      hltable'[i] = Recolored(hltable[i], fg, bg, sp)
                /\ Len(w2.cells) = Len(w.cells)
                /\ \A i \in 1..Len(w.cells) :
                      /\ w2.cells[i].text = w.cells[i].text
                      /\ w2.cells[i].attrs =
                            Recolored(w.cells[i].attrs, fg, bg, sp)
                /\ w2 = [w EXCEPT !.cells = w2.cells]
                /\ grids'[complete] = grids[complete]
                /\ writing' = writing
                /\ complete' = complete
                /\ mode_info_table' = mode_info_table
      ]_vars

\* The default colors are (7, 8, 9); the reverse-video entry 1 and a cell of
\* the writing grid written in it have taken the new default background for
\* their foreground and kept the background 5, and the published grid still
\* holds the cell with the former default, 2.
C13_Witness ==
    /\ hltable[1].foreground = RgbDefault(7)
    /\ Len(hltable) >= 2
    /\ hltable[2] = [foreground |-> RgbDefault(8), background |-> Rgb(5),
                     special |-> RgbDefault(9), flags |-> {"reverse"}]
    /\ Len(grids[writing].cells) >= 1
    /\ grids[writing].cells[1] = [text |-> "a", attrs |-> hltable[2]]
    /\ Len(grids[complete].cells) >= 1
    /\ grids[complete].cells[1].text = "a"
    /\ grids[complete].cells[1].attrs.foreground = RgbDefault(2)
    /\ grids[complete].cells[1].attrs.special = RgbDefault(3)

---------------------------------------------------------------------------
(* The dispatcher: redraw, redraw_event, apply and apply_one, as functions *)
(* of the state of the controller. A batch is a sequence of events, an     *)
(* event the array [name, tuple, ...], a tuple the array of the arguments  *)
(* of one invocation of the handler.                                       *)

\* msg::array and msg::map values.
MArr(a) == [t |-> "array", a |-> a]
MMap(m) == [t |-> "map", a |-> m]

\* What the handlers read and write.
Controller ==
    [grids |-> grids, writing |-> writing, complete |-> complete,
     hltable |-> hltable, mode_info_table |-> mode_info_table,
     current_mode |-> current_mode, opts |-> opts,
     option_guifont |-> option_guifont, option_title |-> option_title,
     flush_wait |-> flush_wait, proc |-> proc, cb |-> cb]

\* The parameter types Ts... of the member function an event name is
\* dispatched to.
Handlers ==
    {"grid_line", "grid_resize", "grid_scroll", "flush", "grid_clear",
     "hl_attr_define", "default_colors_set", "mode_info_set", "mode_change",
     "grid_cursor_goto", "set_title"}

ParamTypes(name) ==
    CASE name = "grid_line"          -> <<"int", "int", "int", "array">>
      [] name = "grid_resize"        -> <<"int", "int", "int">>
      [] name = "grid_scroll"        -> <<"int", "int", "int", "int", "int",
                                          "int">>
      [] name = "flush"              -> <<>>
      [] name = "grid_clear"         -> <<"int">>
      [] name = "hl_attr_define"     -> <<"int", "map">>
      [] name = "default_colors_set" -> <<"int", "int", "int">>
      [] name = "mode_info_set"      -> <<"bool", "array">>
      [] name = "mode_change"        -> <<"str", "int">>
      [] name = "grid_cursor_goto"   -> <<"int", "int", "int">>
      [] name = "set_title"          -> <<"str">>
      [] name = "option_set"         -> <<"str", "object">>

\* is<T>(object)
Is(T, object) == IF T = "object" THEN TRUE ELSE object.t = T

args_match_exact(types, args) ==
    /\ Len(types) = Len(args)
    /\ \A k \in 1..Len(types) : Is(types[k], args[k])

\* The condition of apply_one: size <= args.size() && (is<Ts>(args[i]) ...)
args_match(types, args) ==
    /\ Len(types) <= Len(args)
    /\ \A k \in 1..Len(types) : Is(types[k], args[k])

\* get_grid on the controller st: a grid id other than 1 ends the process.
Aborted(st) == [st EXCEPT !.proc = "aborted"]

\* call(): the member function invoked with get<Ts>(array[i]) for the
\* declared parameters. A grid_line that writes behind the cells leaves a
\* process that is not followed further.
call_handler(st, name, a) ==
    LET w == st.grids[st.writing] IN
    CASE name = "grid_line" ->
            IF ToSize(a[1].i) # 1 THEN Aborted(st)
            ELSE LET ls == grid_line(w, st.hltable, ToSize(a[2].i),
                                     ToSize(a[3].i), a[4].a)
                 IN  [st EXCEPT !.grids[st.writing].cells = ls.cells,
                                !.proc = IF ls.status = "corrupt"
                                            THEN "corrupt" ELSE @]
      [] name = "grid_resize" ->
            IF ToSize(a[1].i) # 1 THEN Aborted(st)
            ELSE [st EXCEPT !.grids[st.writing] =
                                grid_resize(w, ToSize(a[2].i),
                                            ToSize(a[3].i))]
      [] name = "grid_scroll" ->
            IF ScrollArgsInvalid(ToSize(a[2].i), ToSize(a[3].i),
                                 ToSize(a[4].i), ToSize(a[5].i))
                THEN st
            ELSE IF ToSize(a[1].i) # 1 THEN Aborted(st)
            ELSE [st EXCEPT !.grids[st.writing] =
                                grid_scroll(w, ToSize(a[2].i),
                                            ToSize(a[3].i), ToSize(a[4].i),
                                            ToSize(a[5].i), a[6].i)]
      [] name = "flush" ->
            LET f == flush_grids(st.grids, st.writing, st.complete)
                n == flush_notify(st.flush_wait, st.cb)
            IN  [st EXCEPT !.grids = f.grids, !.writing = f.writing,
                           !.complete = f.complete,
                           !.flush_wait = n.flush_wait, !.cb = n.cb]
      [] name = "grid_clear" ->
            IF ToSize(a[1].i) # 1 THEN Aborted(st)
            ELSE [st EXCEPT !.grids[st.writing] = grid_clear(w, st.hltable)]
      [] name = "hl_attr_define" ->
            [st EXCEPT !.hltable = hl_attr_define(@, ToSize(a[1].i), a[2].a)]
      [] name = "default_colors_set" ->
            LET table == default_colors_table(st.hltable, a[1].i, a[2].i,
                                              a[3].i)
            IN  [st EXCEPT !.hltable = table,
                           !.grids[st.writing] =
                                default_colors_grid(w, table[1])]
      [] name = "mode_info_set" ->
            [st EXCEPT !.mode_info_table =
                            mode_info_build(st.hltable, a[2].a),
                       !.current_mode = 0]
      [] name = "mode_change" ->
            IF ToSize(a[2].i) >= Len(st.mode_info_table) THEN st
            ELSE [st EXCEPT !.grids[st.writing].cursor_attrs =
                     st.mode_info_table[ToSize(a[2].i) + 1].cursor_attrs]
      [] name = "grid_cursor_goto" ->
            IF ToSize(a[1].i) # 1 THEN Aborted(st)
            ELSE [st EXCEPT !.grids[st.writing] =
                                grid_cursor_goto(w, ToSize(a[2].i),
                                                 ToSize(a[3].i))]
      [] name = "set_title" ->
            [st EXCEPT !.option_title = a[1].s, !.cb.title_set = @ + 1]
      [] name = "option_set" ->
            LET o == set_option([opts |-> st.opts,
                                 guifont |-> st.option_guifont,
                                 font_set |-> st.cb.font_set],
                                a[1].s, a[2])
            IN  [st EXCEPT !.opts = o.opts, !.option_guifont = o.guifont,
                           !.cb.font_set = o.font_set]

\* apply_one: the handler is invoked if the tuple is an array that matches
\* the parameter types; otherwise an error is logged.
apply_one(st, name, object) ==
    IF object.t = "array" /\ args_match(ParamTypes(name), object.a)
        THEN call_handler(st, name, object.a)
        ELSE st

\* A loop over the tuples that returns at the first one it does not accept.
RECURSIVE apply_stops_at_error(_, _, _)
apply_stops_at_error(st, name, array) ==
    IF array = <<>> \/ st.proc # "running" THEN st
    ELSE IF apply_one(st, name, Head(array)) = st THEN st
    ELSE apply_stops_at_error(apply_one(st, name, Head(array)), name,
                              Tail(array))

\* apply: apply_one for each tuple, in order, while the process lives.
RECURSIVE apply(_, _, _)
apply(st, name, array) ==
    IF array = <<>> \/ st.proc # "running" THEN st
    ELSE apply(apply_one(st, name, Head(array)), name, Tail(array))

option_set_event_always_notifies(st, args) ==
    [apply(st, "option_set", args) EXCEPT !.cb.options_set = @ + 1]

\* redraw_event, the event option_set: the tuples are applied and
\* window.options_set() is called if opts differs from what it was.
option_set_event(st, args) ==
    LET oldopts == st.opts
        st2     == apply(st, "option_set", args)
    IN  IF st2.opts # oldopts
            THEN [st2 EXCEPT !.cb.options_set = @ + 1]
            ELSE st2

\* redraw_event: an event that is no array, is empty or does not start with
\* a string is logged and skipped; the events without a handler (ignored or
\* unknown) change nothing.
redraw_event(st, event_object) ==
    IF \/ event_object.t # "array"
       \/ Len(event_object.a) = 0
       \/ ~IsStr(event_object.a[1])
        THEN st
    ELSE LET name == event_object.a[1].s
             args == Tail(event_object.a)
         IN  IF name \in Handlers THEN apply(st, name, args)
             ELSE IF name = "option_set" THEN option_set_event(st, args)
             ELSE st

\* redraw: redraw_event for each event, in order, while the process lives.
RECURSIVE redraw(_, _)
redraw(st, events) ==
    IF events = <<>> \/ st.proc # "running" THEN st
    ELSE redraw(redraw_event(st, Head(events)), Tail(events))

\* One call of redraw with a batch, while the rendering side is idle.
\* record: whether the batch and the controller before it are kept in call.
Redraw(Batches, record) ==
    \E events \in Batches :
        /\ Handle
        /\ rd.pc = "idle"
        /\ \E st \in {redraw(Controller, events)} :
               /\ grids' = st.grids
               /\ writing' = st.writing
               /\ complete' = st.complete
               /\ hltable' = st.hltable
               /\ mode_info_table' = st.mode_info_table
               /\ current_mode' = st.current_mode
               /\ opts' = st.opts
               /\ option_guifont' = st.option_guifont
               /\ option_title' = st.option_title
               /\ flush_wait' = st.flush_wait
               /\ proc' = st.proc
               /\ cb' = st.cb
        /\ rd' = rd
        /\ call' = IF record
                      THEN [NoCall EXCEPT !.op = "redraw", !.args = events,
                                          !.before = Controller]
                      ELSE NoCall

---------------------------------------------------------------------------
(* Batches: one call of redraw, with every batch of up to MaxBatch of the  *)
(* events below, on a controller fresh from construction or with          *)
(* highlights and a painted 2 x 2 grid.                                    *)

Event(name, tuples) == MArr(<<MStr(name)>> \o tuples)
Tuple(args) == MArr(args)

\* Events that are no array, empty, or without a name.
BadEvents ==
    {MInt(7), MArr(<<>>), MArr(<<MInt(5), Tuple(<<MInt(1)>>)>>)}

\* Events with well-formed tuples and with tuples that are no array, too
\* short, too long or of the wrong types.
GoodEvents ==
    {Event("grid_resize", <<Tuple(<<MInt(1), MInt(2), MInt(2)>>)>>),
     Event("grid_cursor_goto",
           <<Tuple(<<MInt(1), MInt(1), MInt(1)>>),
             Tuple(<<MInt(1), MInt(0)>>),
             Tuple(<<MInt(1), MInt(0), MInt(1), MInt(9)>>)>>),
     Event("grid_line",
           <<Tuple(<<MInt(1), MInt(0), MInt(0), MArr(<<S("a")>>)>>),
             MStr("x"),
             Tuple(<<MInt(1), MStr("0"), MInt(0), MArr(<<>>)>>)>>),
     Event("hl_attr_define",
           <<Tuple(<<MInt(1), MArr(<<>>)>>),
             Tuple(<<MInt(1), MMap(HlPlainDef)>>)>>),
     Event("set_title", <<Tuple(<<MInt(5)>>), Tuple(<<MStr("t")>>)>>),
     Event("option_set",
           <<Tuple(<<MStr("ext_linegrid"), MBool(TRUE)>>),
             Tuple(<<MStr("ext_tabline")>>)>>),
     Event("option_set",
           <<Tuple(<<MStr("ext_linegrid"), MBool(FALSE)>>),
             Tuple(<<MStr("ext_linegrid"), MBool(FALSE), MNil>>)>>),
     Event("flush", <<Tuple(<<>>)>>),
     Event("grid_clear", <<Tuple(<<MInt(2)>>)>>),
     Event("mouse_on", <<>>),
     Event("busy_start", <<Tuple(<<>>)>>)}

BatchEvents == BadEvents \cup GoodEvents

Batches == SeqsUpTo(BatchEvents, MaxBatch)

InitBatch ==
    /\ \E prepared \in BOOLEAN :
          /\ grids = [i \in {0, 1} |->
                         IF i = 0 /\ prepared THEN LineGrid(2, 2, TRUE)
                                              ELSE EmptyGrid]
          /\ hltable = IF prepared THEN LineTable ELSE <<DefaultAttrs>>
    /\ writing = 0
    /\ complete = 1
    /\ mode_info_table = <<>>
    /\ current_mode = 0
    /\ opts = NoOptions
    /\ option_guifont = ""
    /\ option_title = ""
    /\ flush_wait = FALSE
    /\ proc = "running"
    /\ cb = NoCallbacks
    /\ nevents = 0
    /\ rd = ReaderIdle
    /\ call = NoCall

NextBatch ==
    /\ call.op = "none"
    /\ Redraw(Batches, TRUE)

SpecBatch == InitBatch /\ [][NextBatch]_vars

\* The batch on record, its events that are arrays starting with a name
\* that has a handler, and the tuples of such an event.
Batch == call.args

NamedEvent(ev) == ev.t = "array" /\ Len(ev.a) > 0 /\ ev.a[1].t = "str"

Declared(ev) ==
    NamedEvent(ev) /\ ev.a[1].s \in Handlers \cup {"option_set"}

TuplesOf(ev) == 2..Len(ev.a)

\* The declared parameter count of the handler of event ev, and whether the
\* first n elements of the tuple satisfy the declared types.
CountOf(ev) == Len(ParamTypes(ev.a[1].s))

Typed(ev, tuple, n) ==
    \A k \in 1..n :
        LET T == ParamTypes(ev.a[1].s)[k]
        IN  T = "object" \/ tuple.a[k].t = T

\* The batch without its event e, without the tuple at t of its event e,
\* and with that tuple cut to its first n elements.
RemoveAt(q, k) == SubSeq(q, 1, k - 1) \o SubSeq(q, k + 1, Len(q))

WithoutEvent(e) == RemoveAt(Batch, e)

WithoutTuple(e, t) == [Batch EXCEPT ![e].a = RemoveAt(@, t)]

WithTupleCut(e, t, n) == [Batch EXCEPT ![e].a[t].a = SubSeq(@, 1, n)]

\* The unit of work changes nothing when it is all there is to handle, and
\* the batch has the result of the batch without it.
EventDropped(e) ==
    /\ redraw(call.before, <<Batch[e]>>) = call.before
    /\ Controller = redraw(call.before, WithoutEvent(e))

TupleDropped(e, t) ==
    /\ redraw(call.before, <<MArr(<<Batch[e].a[1], Batch[e].a[t]>>)>>)
          = call.before
    /\ Controller = redraw(call.before, WithoutTuple(e, t))

\* A tuple is well-formed, as specified, if it is a sequence of exactly the
\* declared number of elements, each of the declared type.
WellFormedExact(ev, tuple) ==
    /\ tuple.t = "array"
    /\ Len(tuple.a) = CountOf(ev)
    /\ Typed(ev, tuple, CountOf(ev))

\* C14 as claimed: a malformed event, and a tuple that is not well-formed as
\* specified, changes no state and fires no callback, and the batch has the
\* result of the batch without it.
C14_MalformedDropped ==
    call.op = "redraw" =>
        \A e \in 1..Len(Batch) :
            /\ ~NamedEvent(Batch[e]) => EventDropped(e)
            /\ Declared(Batch[e]) =>
                  \A t \in TuplesOf(Batch[e]) :
                      ~WellFormedExact(Batch[e], Batch[e].a[t])
                          => TupleDropped(e, t)

\* A tuple is rejected if it is no sequence, has fewer elements than
\* declared, or has an element of the wrong type among the declared ones.
Rejected(ev, tuple) ==
    \/ tuple.t # "array"
    \/ Len(tuple.a) < CountOf(ev)
    \/ ~Typed(ev, tuple, CountOf(ev))

\* C14 as amended: the same for a malformed event and for a tuple that is no
\* sequence, is shorter than declared or has a declared element of the wrong
\* type (a tuple longer than declared is not dropped).
C14_RejectedDropped ==
    call.op = "redraw" =>
        \A e \in 1..Len(Batch) :
            /\ ~NamedEvent(Batch[e]) => EventDropped(e)
            /\ Declared(Batch[e]) =>
                  \A t \in TuplesOf(Batch[e]) :
                      Rejected(Batch[e], Batch[e].a[t]) => TupleDropped(e, t)

\* A batch of a malformed event, then set_title with a tuple of the wrong
\* type before a well-formed one, then grid_line with two rejected tuples
\* after a well-formed one: the title is set, the callback has fired once
\* and the cell is written.
C14_Witness ==
    /\ call.op = "redraw"
    /\ Len(Batch) = 3
    /\ ~NamedEvent(Batch[1])
    /\ Declared(Batch[2]) /\ Batch[2].a[1].s = "set_title"
    /\ Declared(Batch[3]) /\ Batch[3].a[1].s = "grid_line"
    /\ Rejected(Batch[2], Batch[2].a[2])
    /\ Rejected(Batch[3], Batch[3].a[3])
    /\ option_title = "t"
    /\ cb.title_set = call.before.cb.title_set + 1
    /\ Len(grids[writing].cells) >= 1
    /\ grids[writing].cells[1].text = "a"
    /\ proc = "running"

\* C15 as claimed: a tuple with fewer or with more elements than declared is
\* skipped and leaves the state unchanged.
C15_ExactLength ==
    call.op = "redraw" =>
        \A e \in 1..Len(Batch) :
            Declared(Batch[e]) =>
                \A t \in TuplesOf(Batch[e]) :
                    (/\ Batch[e].a[t].t = "array"
                     /\ Len(Batch[e].a[t].a) # CountOf(Batch[e]))
                        => TupleDropped(e, t)

\* C15 as amended: a tuple with fewer elements than declared, or with a
\* declared element of the wrong type, is skipped and leaves the state
\* unchanged; a tuple with more elements than declared whose leading
\* elements have the declared types has the effect of the tuple of its
\* leading elements.
C15_AtLeastLength ==
    call.op = "redraw" =>
        \A e \in 1..Len(Batch) :
            Declared(Batch[e]) =>
                \A t \in TuplesOf(Batch[e]) :
                    LET tuple == Batch[e].a[t]
                        n     == CountOf(Batch[e])
                    IN  IF tuple.t # "array" THEN TupleDropped(e, t)
                        ELSE IF Len(tuple.a) < n THEN TupleDropped(e, t)
                        ELSE IF ~Typed(Batch[e], tuple, n)
                            THEN TupleDropped(e, t)
                        ELSE Controller =
                                redraw(call.before, WithTupleCut(e, t, n))

\* On a grid of two rows, a grid_cursor_goto event with the tuples
\* [1, 1, 1], [1, 0] and [1, 0, 1, 9] has left the cursor at (0, 1), where
\* the tuple of four elements sends it.
C15_Witness ==
    /\ call.op = "redraw"
    /\ \E e \in 1..Len(Batch) :
          /\ Declared(Batch[e])
          /\ Batch[e].a[1].s = "grid_cursor_goto"
          /\ Len(Batch[e].a) = 4
          /\ Len(Batch[e].a[3].a) = 2
          /\ Len(Batch[e].a[4].a) = 4
    /\ grids[writing].grid_height = 2
    /\ grids[writing].cursor_row = 0
    /\ grids[writing].cursor_col = 1
    /\ proc = "running"

\* The calls of window.options_set() made by the batch on record.
OptionsSetCalls == cb.options_set - call.before.cb.options_set

\* C16 as claimed: a batch fires options_set at most once, and only if the
\* options after the batch differ from the options before it.
C16_OncePerBatch ==
    call.op = "redraw" =>
        /\ OptionsSetCalls <= 1
        /\ OptionsSetCalls >= 1 => opts # call.before.opts

\* The controller before and after event e of the batch on record.
BeforeEvent(e) == redraw(call.before, SubSeq(Batch, 1, e - 1))
AfterEvent(e)  == redraw(call.before, SubSeq(Batch, 1, e))

\* The option_set events of the batch whose tuples changed the options.
ChangingEvents ==
    {e \in 1..Len(Batch) :
        /\ Declared(Batch[e])
        /\ Batch[e].a[1].s = "option_set"
        /\ AfterEvent(e).opts # BeforeEvent(e).opts}

\* C16 as amended: every option_set event fires options_set once if the
\* options after the event differ from the options before the event and not
\* at all otherwise, however many tuples it has; no other event fires it.
C16_OncePerEvent ==
    call.op = "redraw" =>
        /\ \A e \in 1..Len(Batch) :
              AfterEvent(e).cb.options_set =
                  BeforeEvent(e).cb.options_set
                      + (IF e \in ChangingEvents THEN 1 ELSE 0)
        /\ OptionsSetCalls = Cardinality(ChangingEvents)

\* A batch that switched ext_linegrid on and off again: options_set has
\* fired twice and the options are what they were.
C16_Witness ==
    /\ call.op = "redraw"
    /\ OptionsSetCalls = 2
    /\ opts = call.before.opts
    /\ Cardinality(ChangingEvents) = 2

---------------------------------------------------------------------------
(* The grid handlers on their own, continued: grid ids other than 1, and   *)
(* scrolls that move rows.                                                 *)

\* C17 as claimed: a tuple of a grid handler with a grid id other than 1
\* ends the process, whatever its other arguments are, and the grids are
\* what they were.
C17_OtherGridAborts ==
    (call.op \in {"grid_resize", "grid_line", "grid_clear",
                  "grid_cursor_goto", "grid_scroll"} /\ call.id # 1)
        => /\ proc = "aborted"
           /\ grids[writing] = call.before
           /\ grids[complete] = EmptyGrid

\* The columns of the rectangle of the grid_scroll on record.
ScrollColSet == ScrollLeft..(ScrollRight - 1)

\* The rows of the rectangle that a scroll by rows is to fill: all but the
\* last rows when scrolling up (rows > 0), all but the first -rows when
\* scrolling down.
ScrollFilled ==
    IF ScrollRows > 0 THEN ScrollTop..(ScrollBottom - ScrollRows - 1)
                      ELSE (ScrollTop - ScrollRows)..(ScrollBottom - 1)

\* C20: after a grid_scroll on a rectangle that passes validation with
\* 0 < |rows| < bottom - top, every cell (r, c) of the rows to fill, within
\* the columns of the rectangle, is the cell that was at (r + rows, c)
\* before, and every other cell, the dimensions and the cursor are what
\* they were.
C20_ScrollMovesRows ==
    (/\ ScrollValidated
     /\ ScrollRows # 0
     /\ ScrollRows < ScrollBottom - ScrollTop
     /\ -ScrollRows < ScrollBottom - ScrollTop)
        => LET g == grids[writing]
               b == call.before
           IN  /\ proc = "running"
               /\ g = [b EXCEPT !.cells = g.cells]
               /\ Len(g.cells) = Len(b.cells)
               /\ \A r \in 0..(b.grid_height - 1),
                     c \in 0..(b.grid_width - 1) :
                     CellAt(g, r, c) =
                        IF r \in ScrollFilled /\ c \in ScrollColSet
                            THEN CellAt(b, r + ScrollRows, c)
                            ELSE CellAt(b, r, c)

\* A scroll down by one row of a rectangle of three rows and two columns
\* inside a wider grid: the copies overlap, the second and the third row
\* hold what the first and the second row held, the first row and the
\* column outside the rectangle are as before.
C20_Witness ==
    /\ ScrollValidated
    /\ ScrollRows = -1
    /\ ScrollTop = 0
    /\ ScrollBottom = 3
    /\ ScrollLeft = 1
    /\ ScrollRight = 3
    /\ call.before.grid_width = 3
    /\ CellAt(grids[writing], 0, 1).text = "b"
    /\ CellAt(grids[writing], 1, 1).text = "b"
    /\ CellAt(grids[writing], 2, 1).text = "e"
    /\ CellAt(grids[writing], 2, 0).text = "g"

---------------------------------------------------------------------------
(* The mode table: mode_info_set with every list of property maps below,   *)
(* mode_change with every index, definitions of highlights and flushes.    *)

VerticalMode ==
    [is_map |-> TRUE,
     map |-> <<Pair(MStr("cursor_shape"), MStr("vertical")),
               Pair(MStr("attr_id"), MInt(1))>>]

HorizontalMode ==
    [is_map |-> TRUE,
     map |-> <<Pair(MStr("cursor_shape"), MStr("horizontal")),
               Pair(MStr("name"), MStr("replace"))>>]

NoMode == [is_map |-> FALSE, map |-> <<>>]

ModeLists ==
    {<<>>, <<VerticalMode>>, <<VerticalMode, HorizontalMode>>,
     <<NoMode, HorizontalMode>>}

ModeIndexes == {0, 1, 2, SIZE_MAX}

NextMode ==
    \/ ModeInfoSet(ModeLists)
    \/ ModeChange(ModeIndexes)
    \/ HlAttrDefine(MainDefs)
    \/ Flush

SpecMode == Init /\ [][NextMode]_vars

\* The property maps of a list.
MapsOf(property_maps) ==
    {k \in 1..Len(property_maps) : property_maps[k].is_map}

\* C18 as claimed: mode_info_set replaces the mode table (one entry per
\* property map) and sets the current-mode index to 0; mode_change sets the
\* index to the selected one if it is within the table, and leaves the
\* index and the cursor attributes as they are if it is not; nothing else
\* changes the index.
C18_ModeIndexFollowsModeChange ==
    [][/\ \A property_maps \in ModeLists :
            ModeInfoSet({property_maps}) =>
                /\ Len(mode_info_table') =
                        Cardinality(MapsOf(property_maps))
                /\ current_mode' = 0
       /\ \A index \in ModeIndexes :
            ModeChange({index}) =>
                IF index < Len(mode_info_table)
                    THEN current_mode' = index
                    ELSE /\ current_mode' = current_mode
                         /\ grids'[writing].cursor_attrs =
                                grids[writing].cursor_attrs
       /\ current_mode' # current_mode =>
            \/ ModeInfoSet(ModeLists)
            \/ ModeChange(ModeIndexes)
      ]_vars

---------------------------------------------------------------------------
(* The font list. A string is the sequence of its characters, a position   *)
(* in it a size_t counted from 0, and npos the largest size_t.             *)

npos == SIZE_MAX

\* isdigit, and the value digit - '0'.
DigitChars == <<"0", "1", "2", "3", "4", "5", "6", "7", "8", "9">>

isdigit(ch) == \E d \in 1..Len(DigitChars) : DigitChars[d] = ch

DigitValue(ch) == (CHOOSE d \in 1..Len(DigitChars) : DigitChars[d] = ch) - 1

\* std::string_view::find(ch, pos)
RECURSIVE StrFind(_, _, _)
StrFind(string, ch, pos) ==
    IF pos >= Len(string) THEN npos
    ELSE IF string[pos + 1] = ch THEN pos
    ELSE StrFind(string, ch, pos + 1)

\* std::string_view::find_first_not_of(ch, pos)
RECURSIVE StrFindNot(_, _, _)
StrFindNot(string, ch, pos) ==
    IF pos >= Len(string) THEN npos
    ELSE IF string[pos + 1] # ch THEN pos
    ELSE StrFindNot(string, ch, pos + 1)

\* std::string_view::substr(pos, n) for pos <= size (it throws otherwise).
Substr(string, pos, n) ==
    SubSeq(string, pos + 1,
           IF pos + n > Len(string) THEN Len(string) ELSE pos + n)

\* The loop of make_font: the digits at the end of fontstr, read from the
\* last character backwards.
RECURSIVE ScanDigits(_, _, _, _)
ScanDigits(fontstr, index, multiply, size) ==
    IF index = 0 THEN [index |-> 0, size |-> size]
    ELSE LET digit == fontstr[index] IN      \* index -= 1; fontstr[index]
         IF isdigit(digit)
            THEN ScanDigits(fontstr, index - 1, multiply * 10,
                            size + multiply * DigitValue(digit))
            ELSE [index |-> index - 1, size |-> size]

\* make_font
make_font(fontstr, default_size) ==
    LET scan  == ScanDigits(fontstr, Len(fontstr), 1, 0)
        index == scan.index
    IN  IF /\ scan.size # 0
           /\ index # 0
           /\ fontstr[index + 1] = "h"
           /\ fontstr[index] = ":"
            THEN [name |-> Substr(fontstr, 0, index - 1), size |-> scan.size]
            ELSE [name |-> fontstr, size |-> default_size]

\* find_unescaped_comma
RECURSIVE find_unescaped_comma(_, _)
find_unescaped_comma(string, pos) ==
    LET found == StrFind(string, ",", pos) IN
    IF found = npos THEN npos
    ELSE IF found # 0 /\ string[found] # "\\" THEN found
    ELSE find_unescaped_comma(string, found + 1)

\* The loop of get_fonts. The status is "out_of_range" when substr(index)
\* throws because index is past the end of the string.
RECURSIVE FontsLoop(_, _, _, _)
FontsLoop(fontopt, index, fonts, default_size) ==
    LET pos == find_unescaped_comma(fontopt, index) IN
    IF pos = npos
        THEN IF index > Len(fontopt)
                THEN [fonts |-> fonts, status |-> "out_of_range"]
                ELSE [fonts |-> Append(fonts,
                                  make_font(Substr(fontopt, index, npos),
                                            default_size)),
                      status |-> "ok"]
        ELSE FontsLoop(fontopt, StrFindNot(fontopt, " ", pos + 1),
                       Append(fonts,
                              make_font(Substr(fontopt, index, pos - index),
                                        default_size)),
                       default_size)

\* ui_controller::get_fonts
get_fonts(guifont, default_size) ==
    IF Len(guifont) = 0 THEN [fonts |-> <<>>, status |-> "ok"]
    ELSE FontsLoop(guifont, 0, <<>>, default_size)

\* A caller on the window side reads the fonts: the result is kept in call
\* (the fonts in log), nothing of the controller changes.
GetFonts(Sizes) ==
    \E default_size \in Sizes :
        /\ proc = "running"
        /\ \E r \in {get_fonts(option_guifont, default_size)} :
              call' = [NoCall EXCEPT !.op = "get_fonts",
                                     !.args = <<default_size>>,
                                     !.status = r.status, !.log = r.fonts]
        /\ UNCHANGED <<gridVars, hltable, modeVars, optionVars, flush_wait,
                       proc, cb, nevents, rd>>

---------------------------------------------------------------------------
(* One option_set event that stores a font-list string, every string of up *)
(* to MaxFontLen of the characters below, and one reading of the fonts.    *)

FontChars == {"M", ",", " ", "\\", ":", "h", "1", "0"}

RECURSIVE StringsOf(_, _)
StringsOf(chars, n) ==
    IF n = 0 THEN {<<>>}
    ELSE {<<ch>> \o string : ch \in chars, string \in StringsOf(chars, n - 1)}

FontStrings == UNION {StringsOf(FontChars, n) : n \in 0..MaxFontLen}

FontOptions == {<< <<"guifont", MStr(string)>> >> : string \in FontStrings}

\* The default sizes the caller passes.
DefaultSizes == {13}

InitFonts ==
    /\ grids = [i \in {0, 1} |-> EmptyGrid]
    /\ writing = 0
    /\ complete = 1
    /\ hltable = <<DefaultAttrs>>
    /\ mode_info_table = <<>>
    /\ current_mode = 0
    /\ opts = NoOptions
    /\ option_guifont = <<>>
    /\ option_title = ""
    /\ flush_wait = FALSE
    /\ proc = "running"
    /\ cb = NoCallbacks
    /\ nevents = 0
    /\ rd = ReaderIdle
    /\ call = NoCall

NextFonts ==
    \/ nevents = 0 /\ OptionSet(FontOptions)
    \/ call.op = "none" /\ nevents = 1 /\ GetFonts(DefaultSizes)

SpecFonts == InitFonts /\ [][NextFonts]_vars

\* The fields of a string: its parts between the commas that are not
\* preceded by a backslash.
IsSeparator(string, k) ==
    string[k] = "," /\ (k = 1 \/ string[k - 1] # "\\")

RECURSIVE FieldsFrom(_, _, _)
FieldsFrom(string, k, field) ==
    IF k > Len(string) THEN <<field>>
    ELSE IF IsSeparator(string, k)
        THEN <<field>> \o FieldsFrom(string, k + 1, <<>>)
        ELSE FieldsFrom(string, k + 1, Append(field, string[k]))

\* A field without one leading space.
TrimOne(field) ==
    IF Len(field) > 0 /\ field[1] = " " THEN Tail(field) ELSE field

\* The number written by a sequence of digits.
RECURSIVE NumberOf(_)
NumberOf(digits) ==
    IF digits = <<>> THEN 0
    ELSE 10 * NumberOf(SubSeq(digits, 1, Len(digits) - 1))
            + DigitValue(digits[Len(digits)])

\* The positions at which a suffix ":h<digits>" of the field starts.
SuffixStarts(field) ==
    {j \in 1..(Len(field) - 2) :
        /\ field[j] = ":"
        /\ field[j + 1] = "h"
        /\ \A k \in (j + 2)..Len(field) : isdigit(field[k])}

\* The font a field stands for.
FontOf(field, default_size) ==
    IF SuffixStarts(field) = {}
        THEN [name |-> field, size |-> default_size]
        ELSE LET j == CHOOSE x \in SuffixStarts(field) : TRUE
             IN  [name |-> SubSeq(field, 1, j - 1),
                  size |-> NumberOf(SubSeq(field, j + 2, Len(field)))]

FontsOf(string, default_size) ==
    LET fields == FieldsFrom(string, 1, <<>>)
    IN  [k \in 1..Len(fields) |-> FontOf(TrimOne(fields[k]), default_size)]

\* C19 as claimed: for every font-list string that is not empty, get_fonts
\* returns one font per field of the string, split at every comma that no
\* backslash precedes, each field without one leading space; the family is
\* the field without its suffix ":h<digits>" and the size that number, or
\* the whole field and the default size if there is no such suffix.
C19_FontsPerField ==
    (call.op = "get_fonts" /\ Len(option_guifont) > 0)
        => /\ call.status = "ok"
           /\ call.log = FontsOf(option_guifont, call.args[1])

---------------------------------------------------------------------------
(* grid_line on its own, continued: updates with empty text, with every    *)
(* repeat count, at every column.                                          *)

WideUpdates ==
    {SH("a", 1), S(""), SHR("", 2, 0), SHR("", 1, 2), SHR("a", 2, 2)}

WideLists == SeqsUpTo(WideUpdates, MaxUpdates)

NextWide ==
    /\ call.op = "none"
    /\ GridLine({1}, 0..MaxHeight, 0..MaxWidth, WideLists, TRUE)

SpecWide == InitLine /\ [][NextWide]_vars

\* The loop of the grid_line on record before and after its update j.
LineBefore(j) ==
    grid_line(call.before, hltable, call.row, call.col,
              SubSeq(call.updates, 1, j - 1))

LineAfter(j) ==
    grid_line(call.before, hltable, call.row, call.col,
              SubSeq(call.updates, 1, j))

\* The updates with empty text that the loop reached, and the column at
\* which an update starts.
EmptyTexts ==
    {j \in 1..Len(call.log) : UpdateOf(call.log[j])[1].s = ""}

ColumnOf(j) == call.log[j].at - GridIndex(call.before, call.row, 0)

\* Update j made the cell at its column a right half: the cell has the
\* attributes its left neighbour had, the neighbour is flagged double
\* width, nothing else changed and the position advanced by one.
MadeRightHalf(j) ==
    LET pre  == LineBefore(j)
        post == LineAfter(j)
        at   == call.log[j].at        \* the cell is cells[at + 1]
    IN  /\ post.pos = pre.pos + 1
        /\ post.cells =
              [pre.cells EXCEPT
                  ![at + 1].attrs = pre.cells[at].attrs,
                  ![at].attrs.flags =
                      pre.cells[at].attrs.flags \cup {"doublewidth"}]

\* C21 as claimed: an update with empty text at a column c > 0 of the row
\* makes cell c a right half and advances by one column, whatever its
\* repeat count; at column 0 it changes no cell.
C21_EmptyTextAnyRepeat ==
    call.op = "grid_line" =>
        \A j \in EmptyTexts :
            IF ColumnOf(j) = 0
                THEN LineAfter(j).cells = LineBefore(j).cells
            ELSE IF ColumnOf(j) < call.before.grid_width
                THEN MadeRightHalf(j)
            ELSE TRUE

\* C21 as amended: the same for a repeat count that does not exceed the
\* columns that remain in the row; an update with empty text and a greater
\* repeat count is not applied and ends the event, as does one at
\* column 0.
C21_EmptyTextWithinRow ==
    call.op = "grid_line" =>
        \A j \in EmptyTexts :
            LET c == ColumnOf(j)
                width == call.before.grid_width
            IN  IF c >= width THEN TRUE
                ELSE IF RepeatOf(call.log[j]) > width - c \/ c = 0
                    THEN /\ LineAfter(j).cells = LineBefore(j).cells
                         /\ j = Len(call.log)
                         /\ grids[writing].cells = LineBefore(j).cells
                         /\ proc = "running"
                ELSE MadeRightHalf(j)

\* An event of three updates from column 0: "a" in highlight 1, an empty
\* text that names highlight 2 with repeat 0, "a" again. The second cell
\* has the attributes of highlight 1, the first is flagged double width and
\* the third update was written one column after the second.
C21_Witness ==
    /\ call.op = "grid_line"
    /\ Len(call.log) = 3
    /\ call.updates[2] = SHR("", 2, 0)
    /\ call.log[2].kind = "wide"
    /\ ColumnOf(2) = 1
    /\ call.log[3].kind = "glyph"
    /\ call.log[3].at = call.log[2].at + 1
    /\ grids[writing].cells[call.log[2].at + 1].attrs = LineTable[2]
    /\ "doublewidth" \in grids[writing].cells[call.log[2].at].attrs.flags

---------------------------------------------------------------------------
(* The cells grid_line can write, and the cursor of the two grids.         *)

\* The cells that differ between the grid before the call on record and the
\* writing grid, as indexes into the cell sequence.
CellsChanged ==
    {i \in 1..Len(call.before.cells) :
        grids[writing].cells[i] # call.before.cells[i]}

\* The indexes of the cells of row `row` from column col - 1 to the last.
RowTail(g, row, col) ==
    {GridIndex(g, row, c) + 1 : c \in {k \in 0..(g.grid_width - 1) : k >= col - 1}}

\* C22: after grid_line(1, row, col, updates) only cells of row `row` at
\* columns col - 1 through width - 1 differ, and no position outside the
\* cell sequence was written.
C22_WritesStayInRow ==
    (call.op = "grid_line" /\ call.id = 1) =>
        /\ proc = "running"
        /\ call.status # "corrupt"
        /\ Len(grids[writing].cells) = Len(call.before.cells)
        /\ CellsChanged \subseteq RowTail(call.before, call.row, call.col)

\* A grid with at least one cell has its cursor on one of its cells.
CursorInside(g) ==
    Len(g.cells) > 0 =>
        /\ g.cursor_row < g.grid_height
        /\ g.cursor_col < g.grid_width

\* C23: after any sequence of redraw events the cursor of the writing grid
\* and the cursor of the published grid are inside their grids, also after
\* a grid_resize to a smaller size.
C23_CursorInsideGrid ==
    /\ CursorInside(grids[writing])
    /\ CursorInside(grids[complete])

---------------------------------------------------------------------------
(* get_fonts on every stored font list.                                    *)

\* C24: get_fonts returns a list of fonts, and raises no error, for every
\* font list that option_set can store, also one that ends in a comma, or
\* in a comma and spaces, or begins with a comma.
C24_GetFontsReturns ==
    call.op = "get_fonts" =>
        /\ call.status = "ok"
        /\ call.log \in Seq([name : Seq(FontChars), size : Nat])

=============================================================================
